---- MODULE Spec2Model ----
(***************************************************************************)
(* A model of django-custom-cache-page: the cache_page decision engine     *)
(* (decorators.py), the default single-store backend (backends/django.py)  *)
(* with its generic surrogate index (indexes.py), and the invalidation     *)
(* entry points.                                                           *)
(*                                                                         *)
(* Strings are sequences of one-character strings, so that concatenation,  *)
(* joining and integer formatting are computed as the code computes them.  *)
(* Byte strings are sequences of integers 0..255.                          *)
(***************************************************************************)
EXTENDS Integers, Sequences, FiniteSets, TLC

VARIABLES
    cache,      \* the Django cache "default": key -> [v, ttl]
    pending,    \* post-render callbacks registered on returned responses
    view,       \* the configuration the view was decorated with
    stub,       \* surrogate keys a registered backend was asked to invalidate
    before,     \* the stores as they were before the last operation
    hist,       \* the operations performed so far, oldest first
    cache2,     \* the Django cache "second": key -> [v, ttl]
    incrs,      \* increment_group_version calls between cache.incr and cache.set
    backend_cache,  \* conf._backend_cache: name -> instance
    instances,  \* the backend instances constructed so far, oldest first
    rsets,      \* the Redis server's sets: key -> members
    procs,      \* calls of concurrent callers between two store operations
    keyset,     \* a SurrogateKeySet's _keys
    handed      \* the list the keys property returned to a caller

vars == <<cache, pending, view, stub, before, hist, cache2, incrs,
          backend_cache, instances, rsets, procs, keyset, handed>>

----------------------------------------------------------------------------
(* Bounds of the model.                                                    *)

\* Operations in one behaviour of Spec and SpecInvalidate.
MaxEngineOps == 3
\* Operations in one behaviour of SpecTags.
MaxTagOps == 6
\* Operations in one behaviour of SpecSurrogate and SpecVersion.
MaxBackendOps == 4
\* Store operations in one behaviour of SpecCounter.
MaxCounterOps == 5
\* Operations in one behaviour of SpecComposite and SpecCompositeVersion.
MaxCompositeOps == 3

(* Program constants.                                                      *)

\* Versioned.timeout default: the TTL of a version counter.
VersionedDefaultTimeout == 864000
\* DjangoCacheBackend surrogate_index_timeout default.
SurrogateIndexTimeout == 86400
\* The TTL the store applies when set() is given no timeout; the code passes
\* none in increment_group_version. A token, never compared with real TTLs.
StoreDefaultTimeout == -1

----------------------------------------------------------------------------
(* Strings.                                                                *)

Digit(n) == <<"0", "1", "2", "3", "4", "5", "6", "7", "8", "9">>[n + 1]

\* str(n) / f"{n}" for a non-negative integer.
RECURSIVE IntToStr(_)
IntToStr(n) == IF n < 10 THEN <<Digit(n)>>
               ELSE IntToStr(n \div 10) \o <<Digit(n % 10)>>

\* sep.join(parts)
RECURSIVE Join(_, _)
Join(sep, parts) ==
    IF parts = <<>> THEN <<>>
    ELSE IF Len(parts) = 1 THEN parts[1]
    ELSE parts[1] \o sep \o Join(sep, Tail(parts))

\* f"{None}"
NoneStr == <<"N", "o", "n", "e">>

\* A sequence without its element i.
RemoveAt(s, i) ==
    [j \in 1..(Len(s) - 1) |-> IF j < i THEN s[j] ELSE s[j + 1]]

InSeq(x, s) == \E i \in 1..Len(s) : s[i] = x

\* str.isspace for one character: the space and the tab of the alphabet.
IsSpace(ch) == ch \in {" ", "\t"}

\* s.strip(): leading and trailing whitespace is removed.
RECURSIVE LStrip(_)
LStrip(s) == IF s # <<>> /\ IsSpace(s[1]) THEN LStrip(Tail(s)) ELSE s

RECURSIVE RStrip(_)
RStrip(s) == IF s # <<>> /\ IsSpace(s[Len(s)])
             THEN RStrip(SubSeq(s, 1, Len(s) - 1)) ELSE s

Strip(s) == RStrip(LStrip(s))

\* s.replace(" ", "-")
ReplaceSpaces(s) == [i \in 1..Len(s) |-> IF s[i] = " " THEN "-" ELSE s[i]]

----------------------------------------------------------------------------
(* Text encoding: bytes.decode("utf-8") and str.encode(charset).           *)

IsCont(b) == b >= 128 /\ b <= 191

\* Whether bytes.decode("utf-8") succeeds (one- to three-byte forms).
RECURSIVE Utf8Valid(_)
Utf8Valid(b) ==
    IF b = <<>> THEN TRUE
    ELSE IF b[1] < 128 THEN Utf8Valid(Tail(b))
    ELSE IF b[1] >= 194 /\ b[1] <= 223
         THEN Len(b) >= 2 /\ IsCont(b[2]) /\ Utf8Valid(SubSeq(b, 3, Len(b)))
    ELSE IF b[1] >= 224 /\ b[1] <= 239
         THEN Len(b) >= 3 /\ IsCont(b[2]) /\ IsCont(b[3])
              /\ Utf8Valid(SubSeq(b, 4, Len(b)))
    ELSE FALSE

\* bytes.decode("utf-8") of a valid byte string: its code points.
RECURSIVE Utf8Decode(_)
Utf8Decode(b) ==
    IF b = <<>> THEN <<>>
    ELSE IF b[1] < 128 THEN <<b[1]>> \o Utf8Decode(Tail(b))
    ELSE IF b[1] <= 223
         THEN <<(b[1] - 192) * 64 + (b[2] - 128)>>
              \o Utf8Decode(SubSeq(b, 3, Len(b)))
    ELSE <<(b[1] - 224) * 4096 + (b[2] - 128) * 64 + (b[3] - 128)>>
         \o Utf8Decode(SubSeq(b, 4, Len(b)))

Utf8EncodeChar(cp) ==
    IF cp < 128 THEN <<cp>>
    ELSE IF cp < 2048 THEN <<192 + (cp \div 64), 128 + (cp % 64)>>
    ELSE <<224 + (cp \div 4096), 128 + ((cp \div 64) % 64), 128 + (cp % 64)>>

RECURSIVE Utf8Encode(_)
Utf8Encode(s) == IF s = <<>> THEN <<>>
                 ELSE Utf8EncodeChar(s[1]) \o Utf8Encode(Tail(s))

CtUtf8 == "text/html; charset=utf-8"
CtLatin1 == "text/plain; charset=latin-1"

\* HttpResponse.charset: taken from the Content-Type, else the default utf-8.
Charset(ctype) == IF ctype = CtLatin1 THEN "latin-1" ELSE "utf-8"

\* Whether str.encode(charset) succeeds.
Encodable(s, charset) ==
    charset = "utf-8" \/ \A i \in 1..Len(s) : s[i] < 256

\* str.encode(charset): HttpResponse(content=<str>) stores these bytes.
Encode(s, charset) == IF charset = "latin-1" THEN s ELSE Utf8Encode(s)

----------------------------------------------------------------------------
(* The store (Django cache API): a function from the keys present to        *)
(* [v |-> value, ttl |-> the timeout the value was stored with].            *)

Has(c, k) == k \in DOMAIN c

\* cache.set(key, value, timeout)
StoreSet(c, k, v, ttl) == (k :> [v |-> v, ttl |-> ttl]) @@ c

\* cache.delete(key): the store without key (True iff Has(c, k)).
StoreDelete(c, k) == [x \in DOMAIN c \ {k} |-> c[x]]

\* cache.get_or_set(key, default, timeout): adds only when absent.
StoreGetOrSet(c, k, default, ttl) ==
    IF Has(c, k) THEN [cache |-> c, ret |-> c[k].v]
    ELSE [cache |-> StoreSet(c, k, default, ttl), ret |-> default]

\* cache.incr(key): ValueError when the key is absent, else the value plus
\* one. The store may keep the counter's TTL (locmem, redis) or reset it to
\* the default (BaseCache.incr, used by the file-based cache): keepTtl.
StoreIncr(c, k, keepTtl) ==
    IF ~Has(c, k) THEN [cache |-> c, ret |-> 0, exc |-> "ValueError"]
    ELSE [cache |-> StoreSet(c, k, c[k].v + 1,
                             IF keepTtl THEN c[k].ttl ELSE StoreDefaultTimeout),
          ret |-> c[k].v + 1, exc |-> ""]

----------------------------------------------------------------------------
(* indexes.py: DjangoCacheIndex over a store without native sets.          *)

SurrogatePrefix == <<"_", "s", "u", "r", "r", "o", "g", "a", "t", "e", ":">>

\* DjangoCacheIndex._index_key (no redis client): prefix + surrogate key.
IndexKey(surrogate_key) == SurrogatePrefix \o surrogate_key

\* Mutant of IndexAdd: the list is overwritten instead of extended.
IndexAddOverwrites(c, surrogate_key, cache_key) ==
    StoreSet(c, IndexKey(surrogate_key), <<cache_key>>, SurrogateIndexTimeout)

\* The first store operation of DjangoCacheIndex.add:
\* keys = self.cache.get(index_key, [])
IndexRead(c, surrogate_key) ==
    IF Has(c, IndexKey(surrogate_key)) THEN c[IndexKey(surrogate_key)].v
    ELSE <<>>

\* Mutant of IndexWrite: the key is appended to the list the store holds
\* when the write happens.
IndexWriteMerges(c, surrogate_key, keys, cache_key) ==
    LET now == IndexRead(c, surrogate_key) IN
    StoreSet(c, IndexKey(surrogate_key),
             IF InSeq(cache_key, now) THEN now ELSE Append(now, cache_key),
             SurrogateIndexTimeout)

\* Mutant of IndexWrite: a list that already holds the key is not written
\* back.
IndexWriteOnlyNew(c, surrogate_key, keys, cache_key) ==
    IF InSeq(cache_key, keys) THEN c
    ELSE StoreSet(c, IndexKey(surrogate_key), Append(keys, cache_key),
                  SurrogateIndexTimeout)

\* The rest of DjangoCacheIndex.add: the key is appended to the list read
\* if absent from it, and the list is written back with the index timeout.
IndexWrite(c, surrogate_key, keys, cache_key) ==
    StoreSet(c, IndexKey(surrogate_key),
             IF InSeq(cache_key, keys) THEN keys ELSE Append(keys, cache_key),
             SurrogateIndexTimeout)

\* DjangoCacheIndex.add: read the list, append if absent, write back with
\* the index timeout.
IndexAdd(c, surrogate_key, cache_key) ==
    IndexWrite(c, surrogate_key, IndexRead(c, surrogate_key), cache_key)

\* DjangoCacheIndex.get_keys: set(cache.get(index_key, [])).
IndexGetKeys(c, surrogate_key) ==
    LET index_key == IndexKey(surrogate_key)
    IN IF Has(c, index_key)
       THEN {c[index_key].v[i] : i \in 1..Len(c[index_key].v)}
       ELSE {}

\* DjangoCacheIndex.remove: cache.delete(index_key).
IndexRemove(c, surrogate_key) == StoreDelete(c, IndexKey(surrogate_key))

----------------------------------------------------------------------------
(* indexes.py: RedisSurrogateIndex, and DjangoCacheIndex over a cache that *)
(* gives a Redis client. sets is the server's keyspace of sets: key ->     *)
(* [v |-> members, ttl |-> seconds].                                       *)

\* RedisSurrogateIndex._index_key
RedisIndexKey(surrogate_key) == SurrogatePrefix \o surrogate_key

\* Mutant of RedisAdd: the members are read by the caller when the
\* pipeline is built, and written back with the new one.
RedisAddWritesBack(sets, surrogate_key, cache_key, seen) ==
    StoreSet(sets, RedisIndexKey(surrogate_key), seen \cup {cache_key},
             SurrogateIndexTimeout)

\* pipe.sadd(key, cache_key); pipe.expire(key, timeout); pipe.execute():
\* the server runs both commands as one transaction. seen is what the set
\* held when the pipeline was built, which the code does not read.
RedisAdd(sets, surrogate_key, cache_key, seen) ==
    LET key == RedisIndexKey(surrogate_key)
        members == IF Has(sets, key) THEN sets[key].v ELSE {}
    IN StoreSet(sets, key, members \cup {cache_key}, SurrogateIndexTimeout)

\* RedisSurrogateIndex.get_keys: SMEMBERS.
RedisGetKeys(sets, surrogate_key) ==
    IF Has(sets, RedisIndexKey(surrogate_key))
    THEN sets[RedisIndexKey(surrogate_key)].v ELSE {}

----------------------------------------------------------------------------
(* backends/django.py: DjangoCacheBackend.                                 *)

EmptyHeaders == [h \in {} |-> 0]

NoResponse == [status |-> 0, content |-> <<>>, ctype |-> "",
               headers |-> EmptyHeaders, render |-> FALSE]

CacheableHeaders == {"Cache-Control", "Expires", "ETag", "Last-Modified", "Vary"}

\* DjangoCacheBackend.get: None on a miss, else the response rebuilt from
\* the stored record; HttpResponse encodes the stored text in the charset
\* of the stored content type.
DjangoGet(c, key) ==
    IF ~Has(c, key) THEN [found |-> FALSE, response |-> NoResponse, exc |-> ""]
    ELSE LET cached == c[key].v IN
         IF ~Encodable(cached.content, Charset(cached.content_type))
         THEN [found |-> FALSE, response |-> NoResponse,
               exc |-> "UnicodeEncodeError"]
         ELSE [found |-> TRUE,
               response |-> [status |-> cached.status_code,
                             content |-> Encode(cached.content,
                                                Charset(cached.content_type)),
                             ctype |-> cached.content_type,
                             headers |-> cached.headers,
                             render |-> FALSE],
               exc |-> ""]

\* What the value under a key of the store is: surrogate index entries
\* are lists, version counters of groups (named by tags) are integers, the
\* values written by DjangoCacheBackend.set are dicts.
StoredShape(key) ==
    IF Len(key) > Len(SurrogatePrefix)
       /\ SubSeq(key, 1, Len(SurrogatePrefix)) = SurrogatePrefix THEN "list"
    ELSE IF key[1] \in {"g", "t", "u"} THEN "int"
    ELSE "dict"

\* DjangoCacheBackend.get on any key of the store: cached["content"] raises
\* TypeError on a value that is an integer or a list.
DjangoGetStored(c, key) ==
    IF Has(c, key) /\ StoredShape(key) # "dict"
    THEN [found |-> FALSE, response |-> NoResponse, exc |-> "TypeError"]
    ELSE DjangoGet(c, key)

\* The loop of DjangoCacheBackend.set over entry.surrogate_keys.
RECURSIVE IndexAddAll(_, _, _)
IndexAddAll(c, surrogate_keys, key) ==
    IF surrogate_keys = <<>> THEN c
    ELSE IndexAddAll(IndexAdd(c, surrogate_keys[1], key),
                     Tail(surrogate_keys), key)

\* The record DjangoCacheBackend.set stores for a response.
Serialize(response) ==
    [content |-> Utf8Decode(response.content),
     content_type |-> response.ctype,
     status_code |-> response.status,
     headers |-> [h \in DOMAIN response.headers \cap CacheableHeaders
                  |-> response.headers[h]]]

\* DjangoCacheBackend.set: serialise (decoding the content as UTF-8, which
\* raises on other bytes), write the entry, then index every surrogate key.
DjangoSet(c, entry) ==
    IF ~Utf8Valid(entry.response.content)
    THEN [cache |-> c, exc |-> "UnicodeDecodeError"]
    ELSE [cache |-> IndexAddAll(
                        StoreSet(c, entry.key, Serialize(entry.response),
                                 entry.timeout),
                        entry.surrogate_keys, entry.key),
          exc |-> ""]

\* Mutant of SetSteps: the surrogate keys are indexed before the entry is
\* written.
SetStepsIndexFirst(entry) ==
    [i \in 1..Len(entry.surrogate_keys) |->
        [op |-> "add", tag |-> entry.surrogate_keys[i]]]
    \o <<[op |-> "store", tag |-> <<>>]>>

\* What DjangoCacheBackend.set does to the store, in order: cache.set of
\* the entry, then surrogate_index.add for every surrogate key.
SetSteps(entry) ==
    <<[op |-> "store", tag |-> <<>>]>>
    \o [i \in 1..Len(entry.surrogate_keys) |->
           [op |-> "add", tag |-> entry.surrogate_keys[i]]]

\* The next store operation of a set call p = [id, entry, todo, reading,
\* seen]: the write of the entry, or the read or the write of the add at
\* the head of todo. Yields the store, the call, and what was done.
SetStepOf(c, p) ==
    LET step == p.todo[1] IN
    IF step.op = "store"
    THEN [cache |-> StoreSet(c, p.entry.key, Serialize(p.entry.response),
                             p.entry.timeout),
          proc |-> [p EXCEPT !.todo = Tail(p.todo)],
          op |-> "store", tag |-> <<>>, seen |-> <<>>]
    ELSE IF ~p.reading
    THEN [cache |-> c,
          proc |-> [p EXCEPT !.reading = TRUE,
                             !.seen = IndexRead(c, step.tag)],
          op |-> "index_get", tag |-> step.tag,
          seen |-> IndexRead(c, step.tag)]
    ELSE [cache |-> IndexWrite(c, step.tag, p.seen, p.entry.key),
          proc |-> [p EXCEPT !.reading = FALSE, !.seen = <<>>,
                             !.todo = Tail(p.todo)],
          op |-> "add", tag |-> step.tag, seen |-> p.seen]

\* DjangoCacheBackend.delete
DjangoDelete(c, key) == [cache |-> StoreDelete(c, key), ret |-> Has(c, key)]

\* The deletions of invalidate_by_surrogate: every indexed key is deleted,
\* those that were present are counted.
DeleteAll(c, keys) == [x \in DOMAIN c \ keys |-> c[x]]

\* DjangoCacheBackend.invalidate_by_surrogate
DjangoInvalidateBySurrogate(c, surrogate_key) ==
    LET keys == IndexGetKeys(c, surrogate_key) IN
    IF keys = {} THEN [cache |-> c, ret |-> 0]
    ELSE [cache |-> IndexRemove(DeleteAll(c, keys), surrogate_key),
          ret |-> Cardinality({k \in keys : Has(c, k)})]

\* Mutant of DjangoGetGroupVersion: cache.set in place of cache.get_or_set.
GetGroupVersionAlwaysSets(c, group, timeout) ==
    [cache |-> StoreSet(c, group, 1, timeout), ret |-> 1]

\* DjangoCacheBackend.get_group_version
DjangoGetGroupVersion(c, group, timeout) == StoreGetOrSet(c, group, 1, timeout)

\* Mutant of DjangoIncrementGroupVersion: the ValueError of cache.incr is
\* not handled.
IncrementWithoutReinit(c, group, keepTtl) == StoreIncr(c, group, keepTtl)

\* Mutant of DjangoIncrementGroupVersion: one version for all groups, every
\* counter of the store is incremented with the group's.
IncrementEveryGroup(c, group, keepTtl) ==
    LET r == StoreIncr(c, group, keepTtl)
        d == IF r.exc = "ValueError"
             THEN StoreSet(c, group, 2, StoreDefaultTimeout) ELSE r.cache
    IN [cache |-> [k \in DOMAIN d |->
                      IF k # group /\ k[1] # "#" /\ k[1] # "_"
                      THEN [d[k] EXCEPT !.v = @ + 1] ELSE d[k]],
        ret |-> IF r.exc = "ValueError" THEN 2 ELSE r.ret, exc |-> ""]

\* DjangoCacheBackend.increment_group_version: cache.incr, and on its
\* ValueError (no such key) the counter is set to 2 with no timeout given.
DjangoIncrementGroupVersion(c, group, keepTtl) ==
    LET r == StoreIncr(c, group, keepTtl) IN
    IF r.exc = "ValueError"
    THEN [cache |-> StoreSet(c, group, 2, StoreDefaultTimeout), ret |-> 2,
          exc |-> ""]
    ELSE r

----------------------------------------------------------------------------
(* surrogates.py: SurrogateKeySet.                                         *)

\* Mutant of StripAndReplace: inner spaces are kept.
StripOnly(key) == Strip(key)

\* key.strip().replace(" ", "-")
StripAndReplace(key) == ReplaceSpaces(Strip(key))

\* SurrogateKeySet._normalize_key: None, or the normalized key.
NoKey == [none |-> TRUE, key |-> <<>>]
NormalizeOpt(key) ==
    IF key = <<>> THEN NoKey
    ELSE IF StripAndReplace(key) # <<>>
    THEN [none |-> FALSE, key |-> StripAndReplace(key)]
    ELSE NoKey

\* SurrogateKeySet._normalize_key where <<>> stands for None.
NormalizeKey(key) == NormalizeOpt(key).key

\* SurrogateKeySet.add(*keys) on the key list ks.
RECURSIVE KeySetAdd(_, _)
KeySetAdd(ks, keys) ==
    IF keys = <<>> THEN ks
    ELSE LET normalized == NormalizeKey(keys[1]) IN
         KeySetAdd(IF normalized # <<>> /\ ~InSeq(normalized, ks)
                   THEN Append(ks, normalized) ELSE ks,
                   Tail(keys))

\* Mutant of KeysProperty: the list itself is returned.
KeysPropertyShared(ks) == [list |-> ks, shared |-> TRUE]

\* SurrogateKeySet.keys: self._keys.copy(), a list of its own.
KeysProperty(ks) == [list |-> ks, shared |-> FALSE]

\* SurrogateKeySet.to_header: " ".join(self._keys)
ToHeader(ks) == Join(<<" ">>, ks)

\* header_value.split(): the maximal runs of characters that are not
\* whitespace, in order; word is the run being read.
RECURSIVE Split(_, _, _)
Split(s, word, words) ==
    IF s = <<>>
    THEN IF word = <<>> THEN words ELSE Append(words, word)
    ELSE IF IsSpace(s[1])
    THEN Split(Tail(s), <<>>,
               IF word = <<>> THEN words ELSE Append(words, word))
    ELSE Split(Tail(s), Append(word, s[1]), words)

\* Mutant of FromHeader: only the first word of the header is taken.
FromHeaderFirstOnly(header_value) ==
    IF header_value = <<>> THEN <<>>
    ELSE KeySetAdd(<<>>, SubSeq(Split(header_value, <<>>, <<>>), 1, 1))

\* SurrogateKeySet.from_header: the _keys of the set it returns.
FromHeader(header_value) ==
    IF header_value = <<>> THEN <<>>
    ELSE KeySetAdd(<<>>, Split(header_value, <<>>, <<>>))

----------------------------------------------------------------------------
(* keys.py                                                                 *)

\* hash_key: the MD5 hex digest, modelled as an injective marking of the
\* raw key (digest collisions are not modelled).
HashKey(raw) == <<"#">> \o raw

----------------------------------------------------------------------------
(* The environment: requests, the responses a view may produce, and the    *)
(* ways a view may be decorated.                                           *)

PathA == <<"/", "a">>
PathB == <<"/", "b">>
TagG == <<"g">>
TagT == <<"t">>
TagU == <<"u">>

Requests ==
    [path : {PathA, PathB}, do_not_cache : BOOLEAN, bust : BOOLEAN]

\* 200 with ASCII content and a header outside the cacheable list.
RespOk == [status |-> 200, content |-> <<65>>, ctype |-> CtUtf8,
           headers |-> ("X-Frame-Options" :> 1), render |-> FALSE]
\* 200 whose bytes are valid UTF-8 but whose declared charset is latin-1.
RespLatin == [status |-> 200, content |-> <<195, 169>>, ctype |-> CtLatin1,
              headers |-> EmptyHeaders, render |-> FALSE]
\* 200 whose bytes are not valid UTF-8 (latin-1 encoded text).
RespBinary == [status |-> 200, content |-> <<233>>, ctype |-> CtLatin1,
               headers |-> EmptyHeaders, render |-> FALSE]
\* 200 whose bytes are the UTF-8 form of U+20AC, which latin-1 cannot
\* encode, served with a latin-1 content type.
RespEuro == [status |-> 200, content |-> <<226, 130, 172>>, ctype |-> CtLatin1,
             headers |-> EmptyHeaders, render |-> FALSE]
\* A failure status.
Resp404 == [status |-> 404, content |-> <<66>>, ctype |-> CtUtf8,
            headers |-> EmptyHeaders, render |-> FALSE]
\* A TemplateResponse: 200 with a callable render; content is what
\* rendering produces.
RespTemplate == [status |-> 200, content |-> <<67>>, ctype |-> CtUtf8,
                 headers |-> EmptyHeaders, render |-> TRUE]

Responses == {RespOk, RespLatin, RespBinary, Resp404, RespTemplate}

\* Tag items of cache_page(tags=[...]).
StrTag(name) == [kind |-> "str", name |-> name, fn |-> "", timeout |-> 0]
CallableTag(fn) == [kind |-> "callable", name |-> <<>>, fn |-> fn, timeout |-> 0]
\* versioned(name, timeout)
VersionedTag(name, fn, timeout) ==
    [kind |-> "versioned", name |-> name, fn |-> fn, timeout |-> timeout]

\* The callables used as dynamic tags and dynamic versioned names.
CallFn(fn, request) ==
    CASE fn = "path" -> <<<<"p">> \o request.path>>       \* returns a str
      [] fn = "list" -> <<TagU, TagT>>                     \* returns a list
      [] OTHER -> <<>>                                     \* returns None

\* The decorations of the model: cache_page(timeout, key_func=path, tags=,
\* prefix=, only_if=); only_if "reject_b" is lambda r: r.path != "/b".
Views ==
    { [tags |-> <<>>, prefix |-> NoneStr,
       timeout |-> 300, only_if |-> "reject_b"],
      [tags |-> <<VersionedTag(TagG, "", VersionedDefaultTimeout)>>,
       prefix |-> <<"p">>, timeout |-> 300,
       only_if |-> "none"],
      [tags |-> <<StrTag(TagT)>>, prefix |-> NoneStr,
       timeout |-> 60, only_if |-> "none"],
      [tags |-> <<VersionedTag(<<>>, "path", 600), StrTag(TagT),
                  CallableTag("list"), CallableTag("none")>>,
       prefix |-> NoneStr, timeout |-> 300,
       only_if |-> "none"] }

\* only_if(request)
OnlyIf(v, request) == v.only_if = "none" \/ request.path # PathB

----------------------------------------------------------------------------
(* decorators.py                                                           *)

\* Versioned.resolve_name
ResolveName(vtag, request) ==
    IF vtag.fn # "" THEN CallFn(vtag.fn, request)[1] ELSE vtag.name

\* Mutant of ResolveTags: the names of versioned tags are kept out of the
\* surrogate keys.
RECURSIVE ResolveTagsSplitsVersioned(_, _, _, _)
ResolveTagsSplitsVersioned(request, tags, result, versioned_list) ==
    IF tags = <<>> THEN [keys |-> result, versioned |-> versioned_list]
    ELSE LET item == tags[1] IN
         IF item.kind = "versioned"
         THEN ResolveTagsSplitsVersioned(request, Tail(tags), result,
                                         Append(versioned_list, item))
         ELSE IF item.kind = "str"
         THEN ResolveTagsSplitsVersioned(request, Tail(tags),
                                         KeySetAdd(result, <<item.name>>),
                                         versioned_list)
         ELSE ResolveTagsSplitsVersioned(request, Tail(tags),
                                         KeySetAdd(result,
                                                   CallFn(item.fn, request)),
                                         versioned_list)

\* _resolve_tags: (resolved_tags.keys, versioned_tags).
RECURSIVE ResolveTags(_, _, _, _)
ResolveTags(request, tags, result, versioned_list) ==
    IF tags = <<>> THEN [keys |-> result, versioned |-> versioned_list]
    ELSE LET item == tags[1] IN
         IF item.kind = "versioned"
         THEN ResolveTags(request, Tail(tags),
                          KeySetAdd(result, <<ResolveName(item, request)>>),
                          Append(versioned_list, item))
         ELSE IF item.kind = "str"
         THEN ResolveTags(request, Tail(tags),
                          KeySetAdd(result, <<item.name>>), versioned_list)
         ELSE ResolveTags(request, Tail(tags),
                          KeySetAdd(result, CallFn(item.fn, request)),
                          versioned_list)

\* version_parts.append(f"{tag_name}:{version}")
VersionPart(tag_name, version) == tag_name \o <<":">> \o IntToStr(version)

\* The loop of _build_cache_key: get_group_version for every versioned tag,
\* in order; the store after it and the "name:version" parts.
RECURSIVE VersionParts(_, _, _, _)
VersionParts(c, request, versioned_tags, parts) ==
    IF versioned_tags = <<>> THEN [cache |-> c, parts |-> parts]
    ELSE LET tag_name == ResolveName(versioned_tags[1], request)
             r == DjangoGetGroupVersion(c, tag_name, versioned_tags[1].timeout)
         IN VersionParts(r.cache, request, Tail(versioned_tags),
                         Append(parts, VersionPart(tag_name, r.ret)))

\* Mutant of RawKey: the version parts are left out of the key.
RawKeyWithoutVersions(prefix, parts, request_key) ==
    prefix \o <<":">> \o <<":">> \o request_key

\* The raw key of _build_cache_key: f"{prefix}:{version_str}:{key_func(r)}".
RawKey(prefix, parts, request_key) ==
    prefix \o <<":">> \o Join(<<",">>, parts) \o <<":">> \o request_key

\* _build_cache_key with key_func = lambda r: r.path.
BuildCacheKey(c, request, v, versioned_tags) ==
    LET vp == VersionParts(c, request, versioned_tags, <<>>)
    IN [cache |-> vp.cache,
        key |-> HashKey(RawKey(v.prefix, vp.parts, request.path))]

\* django.utils.cache.patch_response_headers: Expires unless present, and
\* Cache-Control max-age; both abstracted to the timeout they encode.
PatchResponseHeaders(response, timeout) ==
    [response EXCEPT !.headers =
        ("Cache-Control" :> timeout)
        @@ (IF "Expires" \in DOMAIN response.headers
            THEN response.headers
            ELSE ("Expires" :> timeout) @@ response.headers)]

\* BaseCacheBackend.prepare_response, which DjangoCacheBackend inherits.
PrepareResponse(response, surrogate_keys) == response

\* What one call of an operation did: the outcome fields of a hist record.
Outcome(invoked, found, exc, result, ops) ==
    [invoked |-> invoked, found |-> found, exc |-> exc, result |-> result,
     ops |-> ops]

\* Mutant of StoreResponse: an entry already held under the key is kept.
StoreResponseKeepsFirst(c, v, key, response, keys) ==
    LET final == PrepareResponse(PatchResponseHeaders(response, v.timeout),
                                 keys)
        r == DjangoSet(c, [key |-> key, response |-> final,
                           timeout |-> v.timeout, surrogate_keys |-> keys])
    IN [cache |-> IF Has(c, key) THEN c ELSE r.cache, exc |-> r.exc,
        response |-> final]

\* The store step of the wrapper (lines 164-176) and of post_render_callback
\* (lines 147-160): patch the headers, let the backend prepare the response,
\* build the CacheEntry and set it.
StoreResponse(c, v, key, response, keys) ==
    LET resolved_timeout == v.timeout
        final == PrepareResponse(PatchResponseHeaders(response, resolved_timeout),
                                 keys)
        entry == [key |-> key, response |-> final, timeout |-> resolved_timeout,
                  surrogate_keys |-> keys]
        r == DjangoSet(c, entry)
    IN [cache |-> r.cache, exc |-> r.exc, response |-> final]

\* Mutant of Bypass: the only_if predicate is not consulted.
BypassIgnoresOnlyIf(v, request) == request.do_not_cache

\* Lines 109-113: the request bypasses the cache.
Bypass(v, request) ==
    request.do_not_cache \/ (v.only_if # "none" /\ ~OnlyIf(v, request))

\* Mutant of IsHit: a cached response is never returned.
IsHitNever(cached, request) == FALSE

\* Mutant of IsHit: the forced-refresh flag is read inverted.
IsHitFlagInverted(cached, request) == cached.found /\ request.bust

\* Mutant of IsHit: the forced-refresh flag is not consulted.
IsHitIgnoresBust(cached, request) == cached.found

\* Line 134: the cached response is returned.
IsHit(cached, request) == cached.found /\ ~request.bust

\* Mutant of Cacheable: every response below 500 is cached.
CacheableBelow500(response) == response.status < 500

\* Line 141: only successful responses are cached.
Cacheable(response) == response.status = 200

\* Mutant of Deferred: a callable render is not looked for.
DeferredIgnored(response) == FALSE

\* Line 145: the response renders later (TemplateResponse).
Deferred(response) == response.render

\* cache_page.wrapper for one request; response is what view_func returns
\* if it is called. Yields the store, the callbacks registered and the
\* outcome.
Wrapper(c, p, v, request, response) ==
    IF Bypass(v, request)
    THEN [cache |-> c, pending |-> p, key |-> <<>>,
          out |-> Outcome(1, FALSE, "", response, <<>>)]
    ELSE
    LET tags == ResolveTags(request, v.tags, <<>>, <<>>)
        bk == BuildCacheKey(c, request, v, tags.versioned)
        ops1 == <<"resolve_backend">>
                \o [i \in 1..Len(tags.versioned) |-> "get_group_version"]
                \o <<"get">>
        cached == DjangoGet(bk.cache, bk.key)
    IN
    IF cached.exc # ""
    THEN [cache |-> bk.cache, pending |-> p, key |-> bk.key,
          out |-> Outcome(0, FALSE, cached.exc, NoResponse, ops1)]
    ELSE IF IsHit(cached, request)
    THEN [cache |-> bk.cache, pending |-> p, key |-> bk.key,
          out |-> Outcome(0, TRUE, "", cached.response, ops1)]
    ELSE IF ~Cacheable(response)
    THEN [cache |-> bk.cache, pending |-> p, key |-> bk.key,
          out |-> Outcome(1, cached.found, "", response, ops1)]
    ELSE IF Deferred(response)
    THEN [cache |-> bk.cache,
          pending |-> Append(p, [key |-> bk.key, response |-> response,
                                 keys |-> tags.keys]),
          key |-> bk.key,
          out |-> Outcome(1, cached.found, "", response,
                          Append(ops1, "add_post_render_callback"))]
    ELSE
    LET st == StoreResponse(bk.cache, v, bk.key, response, tags.keys)
    IN [cache |-> st.cache, pending |-> p, key |-> bk.key,
        out |-> Outcome(1, cached.found, st.exc,
                        IF st.exc = "" THEN st.response ELSE NoResponse,
                        ops1 \o <<"prepare_response", "set">>)]

\* cache_page.wrapper up to the return of backend.get (lines 109-134):
\* what the request carries on to the view call, and the cached response
\* when the request is answered from the store.
WrapperGet(c, v, request) ==
    IF Bypass(v, request)
    THEN [cache |-> c, key |-> <<>>, keys |-> <<>>, state |-> "bypass",
          out |-> Outcome(0, FALSE, "", NoResponse, <<>>)]
    ELSE
    LET tags == ResolveTags(request, v.tags, <<>>, <<>>)
        bk == BuildCacheKey(c, request, v, tags.versioned)
        ops1 == <<"resolve_backend">>
                \o [i \in 1..Len(tags.versioned) |-> "get_group_version"]
                \o <<"get">>
        cached == DjangoGet(bk.cache, bk.key)
    IN [cache |-> bk.cache, key |-> bk.key, keys |-> tags.keys,
        state |-> IF cached.exc # "" THEN "error"
                  ELSE IF IsHit(cached, request) THEN "hit" ELSE "miss",
        out |-> Outcome(0, cached.found, cached.exc,
                        IF cached.exc = "" /\ IsHit(cached, request)
                        THEN cached.response ELSE NoResponse, ops1)]

\* Mutant of WrapperFinish: the versions are read again and the key is
\* built again when the response is stored.
WrapperFinishRebuildsKey(c, p, v, q, response) ==
    IF q.state = "bypass" \/ ~Cacheable(response)
    THEN [cache |-> c, pending |-> p,
          out |-> Outcome(1, FALSE, "", response, <<>>)]
    ELSE
    LET tags == ResolveTags(q.request, v.tags, <<>>, <<>>)
        bk == BuildCacheKey(c, q.request, v, tags.versioned)
    IN IF Deferred(response)
       THEN [cache |-> c,
             pending |-> Append(p, [key |-> bk.key, response |-> response,
                                    keys |-> q.keys]),
             out |-> Outcome(1, FALSE, "", response,
                             <<"add_post_render_callback">>)]
       ELSE
       LET st == StoreResponse(bk.cache, v, bk.key, response, q.keys)
       IN [cache |-> st.cache, pending |-> p,
           out |-> Outcome(1, FALSE, st.exc,
                           IF st.exc = "" THEN st.response ELSE NoResponse,
                           <<"prepare_response", "set">>)]

\* cache_page.wrapper from the view call on (lines 138-179), for a call q
\* = [id, request, key, keys, state] that went past backend.get; response
\* is what view_func returns.
WrapperFinish(c, p, v, q, response) ==
    IF q.state = "bypass" \/ ~Cacheable(response)
    THEN [cache |-> c, pending |-> p,
          out |-> Outcome(1, FALSE, "", response, <<>>)]
    ELSE IF Deferred(response)
    THEN [cache |-> c,
          pending |-> Append(p, [key |-> q.key, response |-> response,
                                 keys |-> q.keys]),
          out |-> Outcome(1, FALSE, "", response,
                          <<"add_post_render_callback">>)]
    ELSE
    LET st == StoreResponse(c, v, q.key, response, q.keys)
    IN [cache |-> st.cache, pending |-> p,
        out |-> Outcome(1, FALSE, st.exc,
                        IF st.exc = "" THEN st.response ELSE NoResponse,
                        <<"prepare_response", "set">>)]

----------------------------------------------------------------------------
(* backends/base.py: HeaderAwareMixin. Surrogate keys of up to a kilobyte  *)
(* are written as runs: a string is a sequence of [ch, n], n copies of the *)
(* character ch. "a" is an ASCII letter, "e'" is U+00E9 (two UTF-8 bytes,  *)
(* in latin-1), "ya" is U+044F (two UTF-8 bytes, not in latin-1).          *)

\* HeaderAwareMixin.MAX_HEADER_SIZE
MAX_HEADER_SIZE == 16384
\* HeaderAwareMixin.MAX_KEY_SIZE
MAX_KEY_SIZE == 1024

Run(ch, n) == <<[ch |-> ch, n |-> n]>>

\* len(ch.encode("utf-8"))
Utf8Size == ("a" :> 1) @@ (" " :> 1) @@ ("e'" :> 2) @@ ("ya" :> 2)
\* The length of ch in an RFC 2047 "q" encoded word: letters stay, a space
\* becomes "_", every other byte becomes =XX.
QSize == ("a" :> 1) @@ (" " :> 1) @@ ("e'" :> 6) @@ ("ya" :> 6)

\* The sum of n * size[ch] over the runs of a string.
RECURSIVE SizeOf(_, _)
SizeOf(str, size) ==
    IF str = <<>> THEN 0
    ELSE str[1].n * size[str[1].ch] + SizeOf(Tail(str), size)

\* len(key.encode("utf-8"))
KeySize(key) == SizeOf(key, Utf8Size)

\* " ".join(valid_keys)
RECURSIVE JoinKeys(_)
JoinKeys(ks) ==
    IF ks = <<>> THEN <<>>
    ELSE IF Len(ks) = 1 THEN ks[1]
    ELSE ks[1] \o Run(" ", 1) \o JoinKeys(Tail(ks))

\* The loop of add_surrogate_headers: a key that is too large is skipped,
\* the loop ends at the first key that does not fit the header any more.
RECURSIVE ValidKeys(_, _, _)
ValidKeys(ks, valid_keys, total_size) ==
    IF ks = <<>> THEN valid_keys
    ELSE IF KeySize(ks[1]) > MAX_KEY_SIZE
    THEN ValidKeys(Tail(ks), valid_keys, total_size)
    ELSE IF total_size + KeySize(ks[1]) + 1 > MAX_HEADER_SIZE THEN valid_keys
    ELSE ValidKeys(Tail(ks), Append(valid_keys, ks[1]),
                   total_size + KeySize(ks[1]) + 1)

\* response[header] = value (django.http.ResponseHeaders.__setitem__): a
\* value that latin-1 can encode is stored as it is; any other value is
\* stored as one RFC 2047 encoded word in UTF-8, "=?utf-8?b?...?=" or
\* "=?utf-8?q?...?=", whichever is shorter. The length, in bytes, of the
\* header value stored.
StoredHeaderSize(value) ==
    IF \A i \in 1..Len(value) : value[i].ch # "ya"
    THEN SizeOf(value, Utf8Size)
    ELSE LET bytes == SizeOf(value, Utf8Size)
             b == 4 * ((bytes + 2) \div 3)
             q == SizeOf(value, QSize)
         IN 12 + (IF b < q THEN b ELSE q)

\* HeaderAwareMixin.add_surrogate_headers: whether the Surrogate-Key
\* header is set, the keys joined into it, and the size of what is stored.
AddSurrogateHeaders(surrogate_keys) ==
    LET valid_keys == IF surrogate_keys = <<>> THEN <<>>
                      ELSE ValidKeys(surrogate_keys, <<>>, 0)
    IN IF valid_keys = <<>>
       THEN [present |-> FALSE, keys |-> <<>>, size |-> 0]
       ELSE [present |-> TRUE, keys |-> valid_keys,
             size |-> StoredHeaderSize(JoinKeys(valid_keys))]

----------------------------------------------------------------------------
(* Backends reachable by name. "default" is the DjangoCacheBackend that    *)
(* get_default_backend builds; the others are backends registered by the   *)
(* integrator that implement only the required methods, and whose          *)
(* increment_group_version ends as their name says.                        *)

BackendNames == {"default", "no-version", "value-error", "store-error"}

\* <backend>.increment_group_version(group)
IncrementGroupVersion(b, c, group, keepTtl) ==
    CASE b = "default" -> DjangoIncrementGroupVersion(c, group, keepTtl)
      [] b = "no-version" ->
            [cache |-> c, ret |-> 0, exc |-> "NotImplementedError"]
      [] b = "value-error" -> [cache |-> c, ret |-> 0, exc |-> "ValueError"]
      [] OTHER -> [cache |-> c, ret |-> 0, exc |-> "ConnectionError"]

\* <backend>.invalidate_by_surrogate(surrogate_key); the registered
\* backends record the key and report one entry.
InvalidateBySurrogate(b, c, st, surrogate_key) ==
    IF b = "default"
    THEN LET r == DjangoInvalidateBySurrogate(c, surrogate_key)
         IN [cache |-> r.cache, stub |-> st, ret |-> r.ret]
    ELSE [cache |-> c, stub |-> Append(st, surrogate_key), ret |-> 1]

\* Mutant of CaughtByInvalidate: only the unsupported signal is caught.
CaughtOnlyNotImplemented == {"NotImplementedError"}

\* The exceptions invalidate_tag and invalidate_tags catch.
CaughtByInvalidate == {"NotImplementedError", "ValueError"}

\* invalidate_tag(tag, backend)
InvalidateTagOf(b, c, st, tag, keepTtl) ==
    LET r == IncrementGroupVersion(b, c, tag, keepTtl) IN
    IF r.exc = ""
    THEN [cache |-> r.cache, stub |-> st, ret |-> r.ret, exc |-> "",
          ops |-> <<"increment_group_version">>]
    ELSE IF r.exc \in CaughtByInvalidate
    THEN LET f == InvalidateBySurrogate(b, c, st, tag)
         IN [cache |-> f.cache, stub |-> f.stub, ret |-> f.ret, exc |-> "",
             ops |-> <<"increment_group_version", "invalidate_by_surrogate">>]
    ELSE [cache |-> c, stub |-> st, ret |-> 0, exc |-> r.exc,
          ops |-> <<"increment_group_version">>]

\* invalidate_tags(tags, backend): the same per tag, summing; an exception
\* that is not caught ends the loop.
RECURSIVE InvalidateTagsOf(_, _, _, _, _, _, _)
InvalidateTagsOf(b, c, st, tags, keepTtl, total, ops) ==
    IF tags = <<>>
    THEN [cache |-> c, stub |-> st, ret |-> total, exc |-> "", ops |-> ops]
    ELSE LET r == InvalidateTagOf(b, c, st, tags[1], keepTtl) IN
         IF r.exc # ""
         THEN [cache |-> r.cache, stub |-> r.stub, ret |-> 0, exc |-> r.exc,
               ops |-> ops \o r.ops]
         ELSE InvalidateTagsOf(b, r.cache, r.stub, Tail(tags), keepTtl,
                               total + r.ret, ops \o r.ops)

----------------------------------------------------------------------------
(* backends/base.py and the backends a composite wraps. A world is the     *)
(* state the wrapped backends keep: the Django caches "default" and        *)
(* "second", each behind its own DjangoCacheBackend, and the list of a     *)
(* backend that implements only the four required methods ("no-version":   *)
(* get misses, set stores nothing, delete reports False,                   *)
(* invalidate_by_surrogate records the key and reports 1).                 *)

World(c, c2, st) == [cache |-> c, cache2 |-> c2, stub |-> st]

WrappedNames == {"default", "second", "no-version"}

IsDjango(b) == b \in {"default", "second"}

\* DjangoCacheBackend.cache: caches[self.cache_name]
StoreOf(b, w) == IF b = "second" THEN w.cache2 ELSE w.cache

WithStore(b, w, c) ==
    IF b = "second" THEN [w EXCEPT !.cache2 = c] ELSE [w EXCEPT !.cache = c]

\* Mutant of BaseGetGroupVersion: version 1 is reported silently.
BaseGetGroupVersionSilent(group, timeout) == [ret |-> 1, exc |-> ""]

\* BaseCacheBackend.get_group_version
BaseGetGroupVersion(group, timeout) ==
    [ret |-> 0, exc |-> "NotImplementedError"]

\* BaseCacheBackend.increment_group_version
BaseIncrementGroupVersion(group) ==
    [ret |-> 0, exc |-> "NotImplementedError"]

\* <backend>.get(key)
BackendGet(b, w, key) ==
    IF IsDjango(b) THEN DjangoGet(StoreOf(b, w), key)
    ELSE [found |-> FALSE, response |-> NoResponse, exc |-> ""]

\* <backend>.set(entry)
BackendSet(b, w, entry) ==
    IF IsDjango(b)
    THEN LET r == DjangoSet(StoreOf(b, w), entry)
         IN [w |-> WithStore(b, w, r.cache), exc |-> r.exc]
    ELSE [w |-> w, exc |-> ""]

\* <backend>.delete(key)
BackendDelete(b, w, key) ==
    IF IsDjango(b)
    THEN LET r == DjangoDelete(StoreOf(b, w), key)
         IN [w |-> WithStore(b, w, r.cache), ret |-> r.ret]
    ELSE [w |-> w, ret |-> FALSE]

\* <backend>.invalidate_by_surrogate(surrogate_key)
BackendInvalidateBySurrogate(b, w, surrogate_key) ==
    IF IsDjango(b)
    THEN LET r == DjangoInvalidateBySurrogate(StoreOf(b, w), surrogate_key)
         IN [w |-> WithStore(b, w, r.cache), ret |-> r.ret]
    ELSE [w |-> [w EXCEPT !.stub = Append(@, surrogate_key)], ret |-> 1]

\* BaseCacheBackend.invalidate_by_surrogates, inherited by every backend of
\* the model but the composite: one invalidate_by_surrogate per key, summed.
RECURSIVE BackendInvalidateBySurrogates(_, _, _, _)
BackendInvalidateBySurrogates(b, w, surrogate_keys, total) ==
    IF surrogate_keys = <<>> THEN [w |-> w, ret |-> total]
    ELSE LET r == BackendInvalidateBySurrogate(b, w, surrogate_keys[1])
         IN BackendInvalidateBySurrogates(b, r.w, Tail(surrogate_keys),
                                          total + r.ret)

\* <backend>.get_group_version(group, timeout)
BackendGetGroupVersion(b, w, group, timeout) ==
    IF IsDjango(b)
    THEN LET r == DjangoGetGroupVersion(StoreOf(b, w), group, timeout)
         IN [w |-> WithStore(b, w, r.cache), ret |-> r.ret, exc |-> ""]
    ELSE LET r == BaseGetGroupVersion(group, timeout)
         IN [w |-> w, ret |-> r.ret, exc |-> r.exc]

\* <backend>.increment_group_version(group)
BackendIncrementGroupVersion(b, w, group, keepTtl) ==
    IF IsDjango(b)
    THEN LET r == DjangoIncrementGroupVersion(StoreOf(b, w), group, keepTtl)
         IN [w |-> WithStore(b, w, r.cache), ret |-> r.ret, exc |-> r.exc]
    ELSE LET r == BaseIncrementGroupVersion(group)
         IN [w |-> w, ret |-> r.ret, exc |-> r.exc]

----------------------------------------------------------------------------
(* backends/composite.py: CompositeBackend(backends, read_from). Each      *)
(* operator returns, with its result, the wrapped backends it called, in   *)
(* the order of the calls.                                                 *)

\* Mutant of CompositeGet: a miss of the read backend falls through to the
\* first backend that holds the key.
CompositeGetFallsThrough(backends, read_from, w, key) ==
    LET holders == {i \in 1..Len(backends) :
                        BackendGet(backends[i], w, key).found}
        first == CHOOSE i \in holders : \A j \in holders : i <= j
    IN IF holders = {}
       THEN [found |-> FALSE, response |-> NoResponse, exc |-> "",
             calls |-> backends]
       ELSE BackendGet(backends[first], w, key) @@
            [calls |-> SubSeq(backends, 1, first)]

\* CompositeBackend.get
CompositeGet(backends, read_from, w, key) ==
    IF 0 <= read_from /\ read_from < Len(backends)
    THEN BackendGet(backends[read_from + 1], w, key) @@
         [calls |-> <<backends[read_from + 1]>>]
    ELSE [found |-> FALSE, response |-> NoResponse, exc |-> "",
          calls |-> <<>>]

\* Mutant of CompositeSet: only the first backend is written.
CompositeSetFirstOnly(backends, w, entry, calls) ==
    IF backends = <<>> THEN [w |-> w, exc |-> "", calls |-> calls]
    ELSE LET r == BackendSet(backends[1], w, entry)
         IN [w |-> r.w, exc |-> r.exc, calls |-> backends]

\* CompositeBackend.set: the loop over self.backends; an exception of a
\* wrapped backend ends it.
RECURSIVE CompositeSet(_, _, _, _)
CompositeSet(backends, w, entry, calls) ==
    IF backends = <<>> THEN [w |-> w, exc |-> "", calls |-> calls]
    ELSE LET r == BackendSet(backends[1], w, entry) IN
         IF r.exc # ""
         THEN [w |-> r.w, exc |-> r.exc, calls |-> Append(calls, backends[1])]
         ELSE CompositeSet(Tail(backends), r.w, entry,
                           Append(calls, backends[1]))

\* Mutant of CompositeDelete: the result of the last backend is returned.
RECURSIVE CompositeDeleteLastResult(_, _, _, _, _)
CompositeDeleteLastResult(backends, w, key, any, calls) ==
    IF backends = <<>> THEN [w |-> w, ret |-> any, calls |-> calls]
    ELSE LET r == BackendDelete(backends[1], w, key)
         IN CompositeDeleteLastResult(Tail(backends), r.w, key, r.ret,
                                      Append(calls, backends[1]))

\* CompositeBackend.delete: every backend is asked, any(results) returned.
RECURSIVE CompositeDelete(_, _, _, _, _)
CompositeDelete(backends, w, key, any, calls) ==
    IF backends = <<>> THEN [w |-> w, ret |-> any, calls |-> calls]
    ELSE LET r == BackendDelete(backends[1], w, key)
         IN CompositeDelete(Tail(backends), r.w, key, any \/ r.ret,
                            Append(calls, backends[1]))

\* CompositeBackend.invalidate_by_surrogate
RECURSIVE CompositeInvalidateBySurrogate(_, _, _, _, _)
CompositeInvalidateBySurrogate(backends, w, surrogate_key, total, calls) ==
    IF backends = <<>> THEN [w |-> w, ret |-> total, calls |-> calls]
    ELSE LET r == BackendInvalidateBySurrogate(backends[1], w, surrogate_key)
         IN CompositeInvalidateBySurrogate(Tail(backends), r.w, surrogate_key,
                                           total + r.ret,
                                           Append(calls, backends[1]))

\* CompositeBackend.invalidate_by_surrogates
RECURSIVE CompositeInvalidateBySurrogates(_, _, _, _, _)
CompositeInvalidateBySurrogates(backends, w, surrogate_keys, total, calls) ==
    IF backends = <<>> THEN [w |-> w, ret |-> total, calls |-> calls]
    ELSE LET r == BackendInvalidateBySurrogates(backends[1], w,
                                                surrogate_keys, 0)
         IN CompositeInvalidateBySurrogates(Tail(backends), r.w,
                                            surrogate_keys, total + r.ret,
                                            Append(calls, backends[1]))

\* Mutant of CompositeGetGroupVersion: every backend is asked and the last
\* one that supports versioning answers.
RECURSIVE CompositeGetGroupVersionLast(_, _, _, _, _)
CompositeGetGroupVersionLast(backends, w, group, timeout, calls) ==
    IF backends = <<>>
    THEN [w |-> w, ret |-> 0, exc |-> "NotImplementedError", calls |-> calls]
    ELSE LET r == BackendGetGroupVersion(backends[1], w, group, timeout)
             rest == CompositeGetGroupVersionLast(
                         Tail(backends), r.w, group, timeout,
                         Append(calls, backends[1]))
         IN IF rest.exc = "" \/ r.exc # "" THEN rest
            ELSE [rest EXCEPT !.ret = r.ret, !.exc = ""]

\* CompositeBackend.get_group_version: the first backend that does not
\* raise NotImplementedError answers.
RECURSIVE CompositeGetGroupVersion(_, _, _, _, _)
CompositeGetGroupVersion(backends, w, group, timeout, calls) ==
    IF backends = <<>>
    THEN [w |-> w, ret |-> 0, exc |-> "NotImplementedError", calls |-> calls]
    ELSE LET r == BackendGetGroupVersion(backends[1], w, group, timeout) IN
         IF r.exc = "NotImplementedError"
         THEN CompositeGetGroupVersion(Tail(backends), r.w, group, timeout,
                                       Append(calls, backends[1]))
         ELSE [w |-> r.w, ret |-> r.ret, exc |-> r.exc,
               calls |-> Append(calls, backends[1])]

\* Mutant of CompositeIncrementGroupVersion: the loop ends at the first
\* backend that answers.
RECURSIVE CompositeIncrementFirstOnly(_, _, _, _, _, _)
CompositeIncrementFirstOnly(backends, w, group, keepTtl, version, calls) ==
    IF backends = <<>>
    THEN [w |-> w, ret |-> 0, exc |-> "NotImplementedError", calls |-> calls]
    ELSE LET r == BackendIncrementGroupVersion(backends[1], w, group, keepTtl)
         IN IF r.exc = "NotImplementedError"
            THEN CompositeIncrementFirstOnly(
                     Tail(backends), r.w, group, keepTtl, version,
                     Append(calls, backends[1]))
            ELSE [w |-> r.w, ret |-> r.ret, exc |-> r.exc,
                  calls |-> Append(calls, backends[1])]

\* CompositeBackend.increment_group_version: version is <<>> for None and
\* <<v>> once a backend has answered.
RECURSIVE CompositeIncrementGroupVersion(_, _, _, _, _, _)
CompositeIncrementGroupVersion(backends, w, group, keepTtl, version, calls) ==
    IF backends = <<>>
    THEN IF version = <<>>
         THEN [w |-> w, ret |-> 0, exc |-> "NotImplementedError",
               calls |-> calls]
         ELSE [w |-> w, ret |-> version[1], exc |-> "", calls |-> calls]
    ELSE LET r == BackendIncrementGroupVersion(backends[1], w, group, keepTtl)
         IN IF r.exc = "NotImplementedError"
            THEN CompositeIncrementGroupVersion(
                     Tail(backends), r.w, group, keepTtl, version,
                     Append(calls, backends[1]))
            ELSE IF r.exc # ""
            THEN [w |-> r.w, ret |-> 0, exc |-> r.exc,
                  calls |-> Append(calls, backends[1])]
            ELSE CompositeIncrementGroupVersion(
                     Tail(backends), r.w, group, keepTtl,
                     IF version = <<>> THEN <<r.ret>> ELSE version,
                     Append(calls, backends[1]))

----------------------------------------------------------------------------
(* conf.py: the registry of named backends. An instance is its position in *)
(* the list of the instances constructed so far; _backend_cache maps names *)
(* to instances.                                                           *)

\* settings.CUSTOM_CACHE_PAGE["BACKENDS"]: two Django backends, a composite
\* of both by name, and a composite that names a backend not configured.
BackendsConfig ==
    ("django" :> [BACKEND |-> "django", cache_name |-> "default",
                  backends |-> <<>>]) @@
    ("second" :> [BACKEND |-> "django", cache_name |-> "second",
                  backends |-> <<>>]) @@
    ("combo" :> [BACKEND |-> "composite", cache_name |-> "",
                 backends |-> <<"django", "second">>]) @@
    ("broken" :> [BACKEND |-> "composite", cache_name |-> "",
                  backends |-> <<"django", "missing">>])

\* Mutant of Remember: the instance is not kept.
RememberNothing(bc, name, instance) == bc

\* _backend_cache[name] = backend
Remember(bc, name, instance) == (name :> instance) @@ bc

\* Mutant of UnknownBackend: an unknown name gets a default Django backend,
\* which is kept under the name.
UnknownGetsDefault(bc, inst, name) ==
    [bc |-> (name :> (Len(inst) + 1)) @@ bc,
     inst |-> Append(inst, [BACKEND |-> "django", cache_name |-> "default",
                            backends |-> <<>>]),
     ret |-> Len(inst) + 1, exc |-> "", built |-> <<name>>]

\* raise ValueError(f"Unknown cache backend: {name}")
UnknownBackend(bc, inst, name) ==
    [bc |-> bc, inst |-> inst, ret |-> 0, exc |-> "ValueError",
     built |-> <<>>]

\* get_backend_by_name(name) over _backend_cache bc and the instances inst:
\* the instance, the exception, and the names constructed, in order.
\* ResolveAll is the comprehension that resolves a composite's names.
RECURSIVE GetBackendByName(_, _, _)
RECURSIVE ResolveAll(_, _, _, _, _)
ResolveAll(bc, inst, names, resolved, built) ==
    IF names = <<>>
    THEN [bc |-> bc, inst |-> inst, ids |-> resolved, exc |-> "",
          built |-> built]
    ELSE LET r == GetBackendByName(bc, inst, names[1]) IN
         IF r.exc # ""
         THEN [bc |-> r.bc, inst |-> r.inst, ids |-> resolved, exc |-> r.exc,
               built |-> built \o r.built]
         ELSE ResolveAll(r.bc, r.inst, Tail(names), Append(resolved, r.ret),
                         built \o r.built)

GetBackendByName(bc, inst, name) ==
    IF name \in DOMAIN bc
    THEN [bc |-> bc, inst |-> inst, ret |-> bc[name], exc |-> "",
          built |-> <<>>]
    ELSE IF name \notin DOMAIN BackendsConfig
    THEN UnknownBackend(bc, inst, name)
    ELSE LET cfg == BackendsConfig[name]
             nested == ResolveAll(bc, inst, cfg.backends, <<>>, <<>>)
         IN IF nested.exc # ""
            THEN [bc |-> nested.bc, inst |-> nested.inst, ret |-> 0,
                  exc |-> nested.exc, built |-> nested.built]
            ELSE [bc |-> Remember(nested.bc, name, Len(nested.inst) + 1),
                  inst |-> Append(nested.inst,
                                  [BACKEND |-> cfg.BACKEND,
                                   cache_name |-> cfg.cache_name,
                                   backends |-> nested.ids]),
                  ret |-> Len(nested.inst) + 1, exc |-> "",
                  built |-> Append(nested.built, name)]

\* get_backend_by_name(name) from line 56 on, for a caller that did not
\* find the name in _backend_cache at line 53: the configuration is looked
\* up, nested names are resolved, the instance is constructed and kept.
ResolveUncached(bc, inst, name) ==
    IF name \notin DOMAIN BackendsConfig
    THEN UnknownBackend(bc, inst, name)
    ELSE LET cfg == BackendsConfig[name]
             nested == ResolveAll(bc, inst, cfg.backends, <<>>, <<>>)
         IN IF nested.exc # ""
            THEN [bc |-> nested.bc, inst |-> nested.inst, ret |-> 0,
                  exc |-> nested.exc, built |-> nested.built]
            ELSE [bc |-> Remember(nested.bc, name, Len(nested.inst) + 1),
                  inst |-> Append(nested.inst,
                                  [BACKEND |-> cfg.BACKEND,
                                   cache_name |-> cfg.cache_name,
                                   backends |-> nested.ids]),
                  ret |-> Len(nested.inst) + 1, exc |-> "",
                  built |-> Append(nested.built, name)]

----------------------------------------------------------------------------
(* The state machine.                                                      *)

EmptyCache == [k \in {} |-> 0]

NoRequest == [path |-> <<>>, do_not_cache |-> FALSE, bust |-> FALSE]

\* One record of hist: the operation, its arguments, the keys the store
\* held before it, and what it did.
Rec(op, request, key, arg, backend, produced, ret, out) ==
    [op |-> op, request |-> request, key |-> key, arg |-> arg,
     backend |-> backend, had |-> DOMAIN cache, produced |-> produced,
     ret |-> ret,
     invoked |-> out.invoked, found |-> out.found, exc |-> out.exc,
     result |-> out.result, ops |-> out.ops]

\* Every operation appends its record and keeps the state it started from.
Log(rec) ==
    /\ hist' = Append(hist, rec)
    /\ before' = [cache |-> cache, pending |-> pending, stub |-> stub,
                  cache2 |-> cache2, backend_cache |-> backend_cache,
                  instances |-> instances, keyset |-> keyset]

Init ==
    /\ cache = EmptyCache
    /\ before = [cache |-> EmptyCache, pending |-> <<>>, stub |-> <<>>,
                 cache2 |-> EmptyCache, backend_cache |-> EmptyCache,
                 instances |-> <<>>, keyset |-> <<>>]
    /\ cache2 = EmptyCache
    /\ incrs = <<>>
    /\ backend_cache = EmptyCache
    /\ instances = <<>>
    /\ rsets = EmptyCache
    /\ procs = <<>>
    /\ keyset = <<>>
    /\ handed = [list |-> <<>>, shared |-> FALSE]
    /\ pending = <<>>
    /\ view \in Views
    /\ stub = <<>>
    /\ hist = <<>>

\* A request reaches the decorated view.
Call(request, response, bound) ==
    /\ Len(hist) < bound
    /\ LET w == Wrapper(cache, pending, view, request, response) IN
       /\ cache' = w.cache
       /\ pending' = w.pending
       /\ Log(
              Rec("call", request, w.key, <<>>, "default",
                  IF w.out.invoked = 1 THEN response ELSE NoResponse,
                  0, w.out))
    /\ UNCHANGED <<view, stub, cache2, incrs, backend_cache, instances, rsets, procs, keyset, handed>>

\* A request reaches the decorated view while other requests are being
\* served: the wrapper runs up to the return of backend.get. A hit, or an
\* exception of get, ends the call; otherwise the call goes on to the view.
Request(request, bound) ==
    /\ Len(hist) < bound
    /\ LET w == WrapperGet(cache, view, request) IN
       /\ cache' = w.cache
       /\ procs' = IF w.state \in {"hit", "error"} THEN procs
                    ELSE Append(procs, [kind |-> "request",
                                        id |-> Len(hist) + 1,
                                        request |-> request, key |-> w.key,
                                        keys |-> w.keys, state |-> w.state])
       /\ Log(Rec("request", request, w.key, w.state, "default", NoResponse,
                  Len(hist) + 1, w.out))
    /\ UNCHANGED <<pending, view, stub, cache2, incrs, backend_cache, instances, rsets, keyset, handed>>

\* A call that went past backend.get invokes the view, which returns
\* response, and runs to its end.
Respond(i, response, bound) ==
    /\ Len(hist) < bound
    /\ i \in 1..Len(procs)
    /\ procs[i].kind = "request"
    /\ LET w == WrapperFinish(cache, pending, view, procs[i], response) IN
       /\ cache' = w.cache
       /\ pending' = w.pending
       /\ Log(Rec("response", procs[i].request, procs[i].key,
                  procs[i].state, "default", response, procs[i].id, w.out))
    /\ procs' = RemoveAt(procs, i)
    /\ UNCHANGED <<view, stub, cache2, incrs, backend_cache, instances, rsets, keyset, handed>>

\* The framework renders a returned TemplateResponse: its post-render
\* callback runs (post_render_callback).
Render(i, bound) ==
    /\ Len(hist) < bound
    /\ i \in 1..Len(pending)
    /\ LET cb == pending[i]
           st == StoreResponse(cache, view, cb.key, cb.response, cb.keys)
       IN /\ cache' = st.cache
          /\ Log(
                 Rec("render", NoRequest, cb.key, <<>>, "default", NoResponse,
                     0, Outcome(0, FALSE, st.exc, st.response,
                                <<"prepare_response", "set">>)))
    /\ pending' = [j \in 1..(Len(pending) - 1) |->
                      IF j < i THEN pending[j] ELSE pending[j + 1]]
    /\ UNCHANGED <<view, stub, cache2, incrs, backend_cache, instances, rsets, procs, keyset, handed>>

\* invalidate_tag(tag, backend=b)
InvalidateTag(tag, b, keepTtl, bound) ==
    /\ Len(hist) < bound
    /\ LET r == InvalidateTagOf(b, cache, stub, tag, keepTtl) IN
       /\ cache' = r.cache
       /\ stub' = r.stub
       /\ Log(Rec("invalidate_tag", NoRequest, <<>>, tag, b, NoResponse,
                  r.ret, Outcome(0, FALSE, r.exc, NoResponse, r.ops)))
    /\ UNCHANGED <<view, pending, cache2, incrs, backend_cache, instances, rsets, procs, keyset, handed>>

\* invalidate_tags(tags, backend=b)
InvalidateTags(tags, b, keepTtl, bound) ==
    /\ Len(hist) < bound
    /\ LET r == InvalidateTagsOf(b, cache, stub, tags, keepTtl, 0, <<>>) IN
       /\ cache' = r.cache
       /\ stub' = r.stub
       /\ Log(Rec("invalidate_tags", NoRequest, <<>>, tags, b, NoResponse,
                  r.ret, Outcome(0, FALSE, r.exc, NoResponse, r.ops)))
    /\ UNCHANGED <<view, pending, cache2, incrs, backend_cache, instances, rsets, procs, keyset, handed>>

\* Time passes beyond the TTL of a stored key.
Expire(k, bound) ==
    /\ Len(hist) < bound
    /\ Has(cache, k)
    /\ cache' = StoreDelete(cache, k)
    /\ Log(Rec("expire", NoRequest, k, <<>>, "default", NoResponse, 0,
               Outcome(0, FALSE, "", NoResponse, <<>>)))
    /\ UNCHANGED <<view, pending, stub, cache2, incrs, backend_cache, instances, rsets, procs, keyset, handed>>

\* backend.get_group_version(group, timeout) on the default backend
BGetGroupVersion(group, timeout, bound) ==
    /\ Len(hist) < bound
    /\ LET r == DjangoGetGroupVersion(cache, group, timeout) IN
       /\ cache' = r.cache
       /\ Log(Rec("get_group_version", NoRequest, <<>>,
                  [group |-> group, timeout |-> timeout], "default",
                  NoResponse, r.ret,
                  Outcome(0, FALSE, "", NoResponse, <<>>)))
    /\ UNCHANGED <<view, pending, stub, cache2, incrs, backend_cache, instances, rsets, procs, keyset, handed>>

\* backend.increment_group_version(group) on the default backend
BIncrement(group, keepTtl, bound) ==
    /\ Len(hist) < bound
    /\ LET r == DjangoIncrementGroupVersion(cache, group, keepTtl) IN
       /\ cache' = r.cache
       /\ Log(Rec("increment_group_version", NoRequest, <<>>, group,
                  "default", NoResponse, r.ret,
                  Outcome(0, FALSE, r.exc, NoResponse, <<>>)))
    /\ UNCHANGED <<view, pending, stub, cache2, incrs, backend_cache, instances, rsets, procs, keyset, handed>>

\* backend.set(CacheEntry(key, response, timeout, surrogate_keys)) on the
\* default backend
BSet(key, response, timeout, surrogate_keys, bound) ==
    /\ Len(hist) < bound
    /\ LET r == DjangoSet(cache, [key |-> key, response |-> response,
                                  timeout |-> timeout,
                                  surrogate_keys |-> surrogate_keys]) IN
       /\ cache' = r.cache
       /\ Log(Rec("set", NoRequest, key, surrogate_keys, "default", response,
                  0, Outcome(0, FALSE, r.exc, NoResponse, <<>>)))
    /\ UNCHANGED <<view, pending, stub, cache2, incrs, backend_cache, instances, rsets, procs, keyset, handed>>

\* backend.get(key) on the default backend
BGet(key, bound) ==
    /\ Len(hist) < bound
    /\ LET r == DjangoGetStored(cache, key) IN
       Log(Rec("get", NoRequest, key, <<>>, "default", NoResponse, 0,
               Outcome(0, r.found, r.exc, r.response, <<>>)))
    /\ UNCHANGED <<cache, view, pending, stub, cache2, incrs, backend_cache, instances, rsets, procs, keyset, handed>>

\* backend.delete(key) on the default backend
BDelete(key, bound) ==
    /\ Len(hist) < bound
    /\ LET r == DjangoDelete(cache, key) IN
       /\ cache' = r.cache
       /\ Log(Rec("delete", NoRequest, key, <<>>, "default", NoResponse,
                  IF r.ret THEN 1 ELSE 0,
                  Outcome(0, FALSE, "", NoResponse, <<>>)))
    /\ UNCHANGED <<view, pending, stub, cache2, incrs, backend_cache, instances, rsets, procs, keyset, handed>>

\* backend.invalidate_by_surrogate(surrogate_key) on the default backend
BInvalidateBySurrogate(surrogate_key, bound) ==
    /\ Len(hist) < bound
    /\ LET r == DjangoInvalidateBySurrogate(cache, surrogate_key) IN
       /\ cache' = r.cache
       /\ Log(Rec("invalidate_by_surrogate", NoRequest, <<>>, surrogate_key,
                  "default", NoResponse, r.ret,
                  Outcome(0, FALSE, "", NoResponse, <<>>)))
    /\ UNCHANGED <<view, pending, stub, cache2, incrs, backend_cache, instances, rsets, procs, keyset, handed>>

\* The first store operation of increment_group_version(group) on the
\* default backend, run by one of several concurrent callers: cache.incr.
\* When it succeeds the call returns its value; when it raises ValueError
\* the call goes on to its except branch (IncrSet).
IncrTry(group, keepTtl, bound) ==
    /\ Len(hist) < bound
    /\ LET r == StoreIncr(cache, group, keepTtl) IN
       /\ cache' = r.cache
       /\ incrs' = IF r.exc = "" THEN incrs ELSE Append(incrs, group)
       /\ Log(Rec(IF r.exc = "" THEN "increment_group_version"
                                ELSE "incr_raised",
                  NoRequest, <<>>, group, "default", NoResponse, r.ret,
                  Outcome(0, FALSE, "", NoResponse, <<"incr">>)))
    /\ UNCHANGED <<view, pending, stub, cache2, backend_cache, instances, rsets, procs, keyset, handed>>

\* The except branch of a call whose cache.incr raised: cache.set(group, 2)
\* and return 2.
IncrSet(i, bound) ==
    /\ Len(hist) < bound
    /\ i \in 1..Len(incrs)
    /\ cache' = StoreSet(cache, incrs[i], 2, StoreDefaultTimeout)
    /\ incrs' = RemoveAt(incrs, i)
    /\ Log(Rec("increment_group_version", NoRequest, <<>>, incrs[i],
               "default", NoResponse, 2,
               Outcome(0, FALSE, "", NoResponse, <<"incr", "set">>)))
    /\ UNCHANGED <<view, pending, stub, cache2, backend_cache, instances, rsets, procs, keyset, handed>>

\* A call of a concurrent caller that is between two store operations.
Proc(kind, tag, key, seen) ==
    [kind |-> kind, tag |-> tag, key |-> key, seen |-> seen]

\* RedisSurrogateIndex.add(surrogate_key, cache_key) by one of several
\* concurrent callers, up to pipe.execute(): the commands are queued in
\* the caller's pipeline.
RAddPipeline(surrogate_key, cache_key, bound) ==
    /\ Len(hist) < bound
    /\ procs' = Append(procs, Proc("redis_add", surrogate_key, cache_key,
                                   RedisGetKeys(rsets, surrogate_key)))
    /\ Log(Rec("pipeline", NoRequest, cache_key, surrogate_key, "redis",
               NoResponse, 0, Outcome(0, FALSE, "", NoResponse, <<>>)))
    /\ UNCHANGED <<cache, cache2, stub, view, pending, incrs, backend_cache, instances, rsets, keyset, handed>>

\* pipe.execute() of a caller's add: the call returns.
RAddExecute(i, bound) ==
    /\ Len(hist) < bound
    /\ i \in 1..Len(procs)
    /\ procs[i].kind = "redis_add"
    /\ rsets' = RedisAdd(rsets, procs[i].tag, procs[i].key, procs[i].seen)
    /\ procs' = RemoveAt(procs, i)
    /\ Log(Rec("add", NoRequest, procs[i].key, procs[i].tag, "redis",
               NoResponse, 0,
               Outcome(0, FALSE, "", NoResponse, <<"sadd", "expire">>)))
    /\ UNCHANGED <<cache, cache2, stub, view, pending, incrs, backend_cache, instances, keyset, handed>>

\* One store operation of a set call, as a record of hist: ret is the
\* number of the call, ops the tags it has still to index, result the
\* list an index read returned.
StepRec(r) ==
    Rec(r.op, NoRequest, r.proc.entry.key, r.tag, "default", NoResponse,
        r.proc.id,
        Outcome(0, FALSE, "", r.seen,
                [i \in 1..Len(r.proc.todo) |-> r.proc.todo[i].tag]))

\* backend.set(entry) on the default backend by one of several concurrent
\* callers, up to its first store operation; the content is valid UTF-8.
SetBegin(key, response, timeout, surrogate_keys, bound) ==
    /\ Len(hist) < bound
    /\ Utf8Valid(response.content)
    /\ LET entry == [key |-> key, response |-> response, timeout |-> timeout,
                     surrogate_keys |-> surrogate_keys]
           r == SetStepOf(cache, [id |-> Len(hist) + 1, kind |-> "set",
                                  entry |-> entry, todo |-> SetSteps(entry),
                                  reading |-> FALSE, seen |-> <<>>])
       IN /\ cache' = r.cache
          /\ procs' = IF r.proc.todo = <<>> THEN procs
                       ELSE Append(procs, r.proc)
          /\ Log(StepRec(r))
    /\ UNCHANGED <<cache2, stub, view, pending, incrs, backend_cache, instances, rsets, keyset, handed>>

\* The next store operation of a set call that has begun; after the last
\* one the call returns.
SetStep(i, bound) ==
    /\ Len(hist) < bound
    /\ i \in 1..Len(procs)
    /\ procs[i].kind = "set"
    /\ LET r == SetStepOf(cache, procs[i]) IN
       /\ cache' = r.cache
       /\ procs' = IF r.proc.todo = <<>> THEN RemoveAt(procs, i)
                    ELSE [procs EXCEPT ![i] = r.proc]
       /\ Log(StepRec(r))
    /\ UNCHANGED <<cache2, stub, view, pending, incrs, backend_cache, instances, rsets, keyset, handed>>

\* invalidate_by_surrogate(surrogate_key) on the default backend by one of
\* several concurrent callers, up to the return of get_keys (lines 93-95):
\* with no keys the call returns 0.
InvalidateBegin(surrogate_key, bound) ==
    /\ Len(hist) < bound
    /\ LET keys == IndexGetKeys(cache, surrogate_key) IN
       /\ procs' = IF keys = {} THEN procs
                    ELSE Append(procs, [kind |-> "invalidate",
                                        id |-> Len(hist) + 1,
                                        tag |-> surrogate_key, keys |-> keys,
                                        count |-> -1])
       /\ Log(Rec(IF keys = {} THEN "invalidate_by_surrogate" ELSE "get_keys",
                  NoRequest, <<>>, surrogate_key, "default", NoResponse,
                  IF keys = {} THEN 0 ELSE Len(hist) + 1,
                  Outcome(0, FALSE, "", keys, <<>>)))
    /\ UNCHANGED <<cache, cache2, stub, view, pending, incrs, backend_cache, instances, rsets, keyset, handed>>

\* The next part of an invalidate_by_surrogate that read its keys: the loop
\* of deletes (lines 97-100), then the removal of the index entry and the
\* return of the count (lines 102-103).
InvalidateStep(i, bound) ==
    /\ Len(hist) < bound
    /\ i \in 1..Len(procs)
    /\ procs[i].kind = "invalidate"
    /\ LET q == procs[i] IN
       IF q.count < 0
       THEN /\ cache' = DeleteAll(cache, q.keys)
            /\ procs' = [procs EXCEPT
                            ![i].count = Cardinality({k \in q.keys :
                                                        Has(cache, k)})]
            /\ Log(Rec("delete_keys", NoRequest, <<>>, q.tag, "default",
                       NoResponse, q.id,
                       Outcome(0, FALSE, "", q.keys, <<>>)))
       ELSE /\ cache' = IndexRemove(cache, q.tag)
            /\ procs' = RemoveAt(procs, i)
            /\ Log(Rec("invalidate_by_surrogate", NoRequest, <<>>, q.tag,
                       "default", NoResponse, q.count,
                       Outcome(0, FALSE, "", q.keys, <<>>)))
    /\ UNCHANGED <<cache2, stub, view, pending, incrs, backend_cache, instances, rsets, keyset, handed>>

\* The process running a set call dies between two store operations.
SetCrash(i, bound) ==
    /\ Len(hist) < bound
    /\ i \in 1..Len(procs)
    /\ procs[i].kind = "set"
    /\ procs' = RemoveAt(procs, i)
    /\ Log(Rec("crash", NoRequest, procs[i].entry.key, <<>>, "default",
               NoResponse, procs[i].id,
               Outcome(0, FALSE, "", <<>>, <<>>)))
    /\ UNCHANGED <<cache, cache2, stub, view, pending, incrs, backend_cache, instances, rsets, keyset, handed>>

\* _build_cache_key for a resolved prefix, versioned tags whose names and
\* versions are given as [name, version], and the output of key_func.
KeyCall(prefix, tags, request_key, bound) ==
    /\ Len(hist) < bound
    /\ LET parts == [i \in 1..Len(tags) |->
                        VersionPart(tags[i].name, tags[i].version)]
           raw == RawKey(prefix, parts, request_key)
       IN Log(Rec("build_cache_key", NoRequest, HashKey(raw),
                  [prefix |-> prefix, tags |-> tags,
                   request_key |-> request_key],
                  "default", NoResponse, 0,
                  Outcome(0, FALSE, "", raw, <<>>)))
    /\ UNCHANGED <<cache, cache2, stub, view, pending, incrs, backend_cache, instances, rsets, procs, keyset, handed>>

\* backend.add_surrogate_headers(response, surrogate_keys) on a response
\* without the header.
HeaderCall(surrogate_keys) ==
    /\ hist = <<>>
    /\ LET r == AddSurrogateHeaders(surrogate_keys) IN
       Log(Rec("add_surrogate_headers", NoRequest, <<>>, surrogate_keys,
               "header-aware", RespOk, r.size,
               Outcome(0, FALSE, "", r, <<>>)))
    /\ UNCHANGED <<cache, cache2, stub, view, pending, incrs, backend_cache, instances, rsets, procs, keyset, handed>>

\* An operation on the SurrogateKeySet, or on the list its keys property
\* returned.
KsRec(op, arg, result) ==
    Rec(op, NoRequest, <<>>, arg, "keyset", NoResponse, 0,
        Outcome(0, FALSE, "", result, <<>>))

\* SurrogateKeySet(keys): a new set; a list handed out before belongs to
\* the set there was.
KsConstruct(keys, bound) ==
    /\ Len(hist) < bound
    /\ keyset' = KeySetAdd(<<>>, keys)
    /\ handed' = [handed EXCEPT !.shared = FALSE]
    /\ Log(KsRec("construct", keys, <<>>))
    /\ UNCHANGED <<cache, cache2, stub, view, pending, incrs, backend_cache, instances, rsets, procs>>

\* SurrogateKeySet.from_header(header_value): a new set.
KsFromHeader(header_value, bound) ==
    /\ Len(hist) < bound
    /\ keyset' = FromHeader(header_value)
    /\ handed' = [handed EXCEPT !.shared = FALSE]
    /\ Log(KsRec("from_header", header_value, <<>>))
    /\ UNCHANGED <<cache, cache2, stub, view, pending, incrs, backend_cache, instances, rsets, procs>>

\* set.add(*keys)
KsAdd(keys, bound) ==
    /\ Len(hist) < bound
    /\ keyset' = KeySetAdd(keyset, keys)
    /\ handed' = IF handed.shared THEN [handed EXCEPT !.list = keyset']
                 ELSE handed
    /\ Log(KsRec("add", keys, <<>>))
    /\ UNCHANGED <<cache, cache2, stub, view, pending, incrs, backend_cache, instances, rsets, procs>>

\* set.keys
KsKeys(bound) ==
    /\ Len(hist) < bound
    /\ handed' = KeysProperty(keyset)
    /\ Log(KsRec("keys", <<>>, keyset))
    /\ UNCHANGED <<cache, cache2, stub, view, pending, incrs, backend_cache, instances, rsets, procs, keyset>>

\* The caller appends a string to the list the keys property returned.
KsMutate(x, bound) ==
    /\ Len(hist) < bound
    /\ handed' = [handed EXCEPT !.list = Append(@, x)]
    /\ keyset' = IF handed.shared THEN Append(keyset, x) ELSE keyset
    /\ Log(KsRec("mutate", x, <<>>))
    /\ UNCHANGED <<cache, cache2, stub, view, pending, incrs, backend_cache, instances, rsets, procs>>

\* SurrogateKeySet.from_header(set.to_header()): the set that comes back.
KsRoundTrip ==
    /\ Len(hist) = 1
    /\ keyset' = FromHeader(ToHeader(keyset))
    /\ handed' = [handed EXCEPT !.shared = FALSE]
    /\ Log(KsRec("round_trip", ToHeader(keyset), <<>>))
    /\ UNCHANGED <<cache, cache2, stub, view, pending, incrs, backend_cache, instances, rsets, procs>>

\* SurrogateKeySet()._normalize_key(key)
NormalizeCall(key) ==
    /\ hist = <<>>
    /\ Log(KsRec("normalize", key, NormalizeOpt(key)))
    /\ UNCHANGED <<cache, cache2, stub, view, pending, incrs, backend_cache, instances, rsets, procs, keyset, handed>>

\* _normalize_key applied to the key the call before returned.
NormalizeAgain ==
    /\ Len(hist) = 1
    /\ ~hist[1].result.none
    /\ Log(KsRec("normalize", hist[1].result.key,
                 NormalizeOpt(hist[1].result.key)))
    /\ UNCHANGED <<cache, cache2, stub, view, pending, incrs, backend_cache, instances, rsets, procs, keyset, handed>>

\* The world the wrapped backends share, and an operation's effect on it.
TheWorld == World(cache, cache2, stub)

SetWorld(w) ==
    /\ cache' = w.cache
    /\ cache2' = w.cache2
    /\ stub' = w.stub

\* The record of an operation on a CompositeBackend(backends, read_from);
\* ops lists the wrapped backends called, in order.
CompositeRec(op, backends, read_from, key, arg, produced, ret, found, exc, result, calls) ==
    [backends |-> backends, read_from |-> read_from] @@
    Rec(op, NoRequest, key, arg, "composite", produced, ret,
        Outcome(0, found, exc, result, calls))

\* CompositeBackend(backends).set(CacheEntry(...))
CSet(backends, key, response, timeout, surrogate_keys, bound) ==
    /\ Len(hist) < bound
    /\ LET r == CompositeSet(backends, TheWorld,
                             [key |-> key, response |-> response,
                              timeout |-> timeout,
                              surrogate_keys |-> surrogate_keys], <<>>) IN
       /\ SetWorld(r.w)
       /\ Log(CompositeRec("set", backends, 0, key, surrogate_keys, response,
                           0, FALSE, r.exc, NoResponse, r.calls))
    /\ UNCHANGED <<view, pending, incrs, backend_cache, instances, rsets, procs, keyset, handed>>

\* CompositeBackend(backends).delete(key)
CDelete(backends, key, bound) ==
    /\ Len(hist) < bound
    /\ LET r == CompositeDelete(backends, TheWorld, key, FALSE, <<>>) IN
       /\ SetWorld(r.w)
       /\ Log(CompositeRec("delete", backends, 0, key, <<>>, NoResponse,
                           IF r.ret THEN 1 ELSE 0, FALSE, "", NoResponse,
                           r.calls))
    /\ UNCHANGED <<view, pending, incrs, backend_cache, instances, rsets, procs, keyset, handed>>

\* CompositeBackend(backends).invalidate_by_surrogate(surrogate_key)
CInvalidateBySurrogate(backends, surrogate_key, bound) ==
    /\ Len(hist) < bound
    /\ LET r == CompositeInvalidateBySurrogate(backends, TheWorld,
                                               surrogate_key, 0, <<>>) IN
       /\ SetWorld(r.w)
       /\ Log(CompositeRec("invalidate_by_surrogate", backends, 0, <<>>,
                           surrogate_key, NoResponse, r.ret, FALSE, "",
                           NoResponse, r.calls))
    /\ UNCHANGED <<view, pending, incrs, backend_cache, instances, rsets, procs, keyset, handed>>

\* CompositeBackend(backends).invalidate_by_surrogates(surrogate_keys)
CInvalidateBySurrogates(backends, surrogate_keys, bound) ==
    /\ Len(hist) < bound
    /\ LET r == CompositeInvalidateBySurrogates(backends, TheWorld,
                                                surrogate_keys, 0, <<>>) IN
       /\ SetWorld(r.w)
       /\ Log(CompositeRec("invalidate_by_surrogates", backends, 0, <<>>,
                           surrogate_keys, NoResponse, r.ret, FALSE, "",
                           NoResponse, r.calls))
    /\ UNCHANGED <<view, pending, incrs, backend_cache, instances, rsets, procs, keyset, handed>>

\* CompositeBackend(backends, read_from=read_from).get(key)
CGet(backends, read_from, key, bound) ==
    /\ Len(hist) < bound
    /\ LET r == CompositeGet(backends, read_from, TheWorld, key) IN
       Log(CompositeRec("get", backends, read_from, key, <<>>, NoResponse, 0,
                        r.found, r.exc, r.response, r.calls))
    /\ UNCHANGED <<cache, cache2, stub, view, pending, incrs, backend_cache,
                   instances, rsets, procs, keyset, handed>>

\* <backend b>.delete(key), called on the wrapped backend itself
DirectDelete(b, key, bound) ==
    /\ Len(hist) < bound
    /\ LET r == BackendDelete(b, TheWorld, key) IN
       /\ SetWorld(r.w)
       /\ Log(Rec("delete", NoRequest, key, <<>>, b, NoResponse,
                  IF r.ret THEN 1 ELSE 0,
                  Outcome(0, FALSE, "", NoResponse, <<>>)))
    /\ UNCHANGED <<view, pending, incrs, backend_cache, instances, rsets, procs, keyset, handed>>

\* CompositeBackend(backends).get_group_version(group, timeout)
CGetGroupVersion(backends, group, timeout, bound) ==
    /\ Len(hist) < bound
    /\ LET r == CompositeGetGroupVersion(backends, TheWorld, group, timeout,
                                         <<>>) IN
       /\ SetWorld(r.w)
       /\ Log(CompositeRec("get_group_version", backends, 0, <<>>,
                           [group |-> group, timeout |-> timeout], NoResponse,
                           r.ret, FALSE, r.exc, NoResponse, r.calls))
    /\ UNCHANGED <<view, pending, incrs, backend_cache, instances, rsets, procs, keyset, handed>>

\* CompositeBackend(backends).increment_group_version(group)
CIncrement(backends, group, keepTtl, bound) ==
    /\ Len(hist) < bound
    /\ LET r == CompositeIncrementGroupVersion(backends, TheWorld, group,
                                               keepTtl, <<>>, <<>>) IN
       /\ SetWorld(r.w)
       /\ Log(CompositeRec("increment_group_version", backends, 0, <<>>,
                           group, NoResponse, r.ret, FALSE, r.exc, NoResponse,
                           r.calls))
    /\ UNCHANGED <<view, pending, incrs, backend_cache, instances, rsets, procs, keyset, handed>>

\* <backend b>.get_group_version(group, timeout) on the backend itself
DirectGetGroupVersion(b, group, timeout, bound) ==
    /\ Len(hist) < bound
    /\ LET r == BackendGetGroupVersion(b, TheWorld, group, timeout) IN
       /\ SetWorld(r.w)
       /\ Log(Rec("get_group_version", NoRequest, <<>>,
                  [group |-> group, timeout |-> timeout], b, NoResponse,
                  r.ret, Outcome(0, FALSE, r.exc, NoResponse, <<>>)))
    /\ UNCHANGED <<view, pending, incrs, backend_cache, instances, rsets, procs, keyset, handed>>

\* <backend b>.increment_group_version(group) on the backend itself
DirectIncrement(b, group, keepTtl, bound) ==
    /\ Len(hist) < bound
    /\ LET r == BackendIncrementGroupVersion(b, TheWorld, group, keepTtl) IN
       /\ SetWorld(r.w)
       /\ Log(Rec("increment_group_version", NoRequest, <<>>, group, b,
                  NoResponse, r.ret,
                  Outcome(0, FALSE, r.exc, NoResponse, <<>>)))
    /\ UNCHANGED <<view, pending, incrs, backend_cache, instances, rsets, procs, keyset, handed>>

\* get_backend_by_name(name)
GetBackend(name, bound) ==
    /\ Len(hist) < bound
    /\ LET r == GetBackendByName(backend_cache, instances, name) IN
       /\ backend_cache' = r.bc
       /\ instances' = r.inst
       /\ Log(Rec("get_backend_by_name", NoRequest, <<>>, name, "registry",
                  NoResponse, r.ret,
                  Outcome(0, FALSE, r.exc, NoResponse, r.built)))
    /\ UNCHANGED <<cache, cache2, stub, view, pending, incrs, rsets, procs, keyset, handed>>

\* get_backend_by_name(name) by one of several threads, up to the test of
\* line 53: a name the registry keeps is returned, otherwise the call
\* goes on to line 56.
ResolveBegin(name, bound) ==
    /\ Len(hist) < bound
    /\ procs' = IF name \in DOMAIN backend_cache THEN procs
                 ELSE Append(procs, [kind |-> "resolve", name |-> name,
                                     id |-> Len(hist) + 1])
    /\ Log(Rec(IF name \in DOMAIN backend_cache THEN "get_backend_by_name"
               ELSE "lookup",
               NoRequest, <<>>, name, "registry", NoResponse,
               IF name \in DOMAIN backend_cache THEN backend_cache[name]
               ELSE 0,
               Outcome(0, name \in DOMAIN backend_cache, "", NoResponse,
                       <<>>)))
    /\ UNCHANGED <<backend_cache, instances, cache, cache2, stub, view, pending, incrs, rsets, keyset, handed>>

\* The rest of a get_backend_by_name(name) that went past line 53.
ResolveEnd(i, bound) ==
    /\ Len(hist) < bound
    /\ i \in 1..Len(procs)
    /\ procs[i].kind = "resolve"
    /\ LET r == ResolveUncached(backend_cache, instances, procs[i].name) IN
       /\ backend_cache' = r.bc
       /\ instances' = r.inst
       /\ Log(Rec("get_backend_by_name", NoRequest, <<>>, procs[i].name,
                  "registry", NoResponse, r.ret,
                  Outcome(0, FALSE, r.exc, NoResponse, r.built)))
    /\ procs' = RemoveAt(procs, i)
    /\ UNCHANGED <<cache, cache2, stub, view, pending, incrs, rsets, keyset, handed>>

\* clear_backend_cache()
ClearBackendCache(bound) ==
    /\ Len(hist) < bound
    /\ backend_cache' = EmptyCache
    /\ Log(Rec("clear_backend_cache", NoRequest, <<>>, <<>>, "registry",
               NoResponse, 0, Outcome(0, FALSE, "", NoResponse, <<>>)))
    /\ UNCHANGED <<cache, cache2, stub, view, pending, incrs, instances, rsets, procs, keyset, handed>>

----------------------------------------------------------------------------
(* Spec: requests, rendering and expiry, for every decoration.             *)

\* The requests of the engine specification.
EngineRequests ==
    {r \in Requests : /\ ~(r.do_not_cache /\ r.bust)
                      /\ r.path = PathB => ~r.do_not_cache /\ ~r.bust}

Next ==
    \/ \E request \in EngineRequests, response \in Responses :
          Call(request, response, MaxEngineOps)
    \/ \E i \in 1..Len(pending) : Render(i, MaxEngineOps)
    \/ \E k \in DOMAIN cache : Expire(k, MaxEngineOps)

Spec == Init /\ [][Next]_vars

----------------------------------------------------------------------------
(* Vocabulary of the properties.                                           *)

Last == hist[Len(hist)]

IsCall(r) == r.op = "call"

\* The request carries neither do_not_cache nor _bust_cache.
NoFlags(request) == ~request.do_not_cache /\ ~request.bust

\* A key of a cached response, or of a surrogate index entry (the other
\* keys of the store are version counters).
IsEntryKey(k) == k[1] = "#"
IsIndexKey(k) ==
    Len(k) > Len(SurrogatePrefix) /\ SubSeq(k, 1, Len(SurrogatePrefix)) = SurrogatePrefix

\* Key k holds the same in stores c and d (absent in both, or equal).
SameAt(c, d, k) == (Has(c, k) <=> Has(d, k)) /\ (Has(c, k) => c[k] = d[k])

\* Cached responses and index entries are the same in stores c and d.
SameEntries(c, d) ==
    \A k \in DOMAIN c \cup DOMAIN d :
        (IsEntryKey(k) \/ IsIndexKey(k)) => SameAt(c, d, k)

\* The store holds, under key, the record of response patched for timeout.
HoldsEntry(c, key, response, timeout) ==
    /\ Has(c, key)
    /\ Utf8Valid(response.content)
    /\ c[key].v = Serialize(PatchResponseHeaders(response, timeout))
    /\ c[key].ttl = timeout

\* Records i and i+1 of hist are two calls with the same request key by
\* requests without flags, the first of which returned a 200 response.
TwoCalls(i) ==
    /\ IsCall(hist[i]) /\ IsCall(hist[i + 1])
    /\ NoFlags(hist[i].request) /\ NoFlags(hist[i + 1].request)
    /\ hist[i].request.path = hist[i + 1].request.path
    /\ hist[i].exc = "" /\ hist[i].result.status = 200

----------------------------------------------------------------------------
----------------------------------------------------------------------------
(* C6: a call whose view returned a status other than 200 calls no set and *)
(* registers no continuation; the cached responses and index entries are   *)
(* as before the call; and the next identical request invokes the view.    *)
C6_Non200NotStored ==
    /\ (Len(hist) > 0 /\ IsCall(Last) /\ Last.invoked = 1
            /\ Last.produced.status # 200) =>
          /\ ~InSeq("set", Last.ops)
          /\ ~InSeq("add_post_render_callback", Last.ops)
          /\ pending = before.pending
          /\ SameEntries(cache, before.cache)
          /\ Last.key # <<>> => SameAt(cache, before.cache, Last.key)
    /\ \A i \in 1..(Len(hist) - 1) :
          (IsCall(hist[i]) /\ hist[i].invoked = 1
              /\ hist[i].produced.status # 200
              /\ IsCall(hist[i + 1]) /\ hist[i + 1].request = hist[i].request) =>
             hist[i + 1].invoked = 1

\* C6's case: a miss whose view returned 404, over a store that holds
\* entries, followed by the same request.
C6_Witness ==
    /\ Len(hist) = 3
    /\ IsCall(hist[2]) /\ hist[2].produced.status = 404 /\ hist[2].key # <<>>
    /\ \E k \in hist[2].had : IsEntryKey(k)
    /\ IsCall(hist[3]) /\ hist[3].request = hist[2].request
    /\ ~Has(cache, hist[2].key)

----------------------------------------------------------------------------
(* C7: a call whose request has do_not_cache, or that only_if rejects,     *)
(* invokes the view once, returns its response unmodified, performs no     *)
(* backend operation and leaves the store and the callbacks unchanged.     *)
C7_Bypass ==
    (Len(hist) > 0 /\ IsCall(Last)
        /\ (Last.request.do_not_cache
            \/ (view.only_if # "none" /\ ~OnlyIf(view, Last.request)))) =>
       /\ Last.invoked = 1
       /\ Last.exc = ""
       /\ Last.result = Last.produced
       /\ Last.ops = <<>>
       /\ cache = before.cache
       /\ pending = before.pending

\* C7's case: only_if rejects a request while the store holds an entry.
C7_Witness ==
    /\ Len(hist) > 0 /\ IsCall(Last)
    /\ view.only_if # "none" /\ ~OnlyIf(view, Last.request)
    /\ ~Last.request.do_not_cache
    /\ \E k \in DOMAIN cache : IsEntryKey(k)

----------------------------------------------------------------------------
\* A call that returned without invoking the view found an entry and had
\* no _bust_cache flag.
C8_OnlyHitSkipsView ==
    \A i \in 1..Len(hist) :
        (IsCall(hist[i]) /\ hist[i].invoked = 0) =>
            hist[i].found /\ ~hist[i].request.bust

\* The last operation is a forced refresh of a stored entry.
BustOfStored ==
    /\ Len(hist) > 0 /\ IsCall(Last)
    /\ Last.request.bust /\ ~Bypass(view, Last.request)
    /\ Last.found

----------------------------------------------------------------------------
(* SpecTags: a view decorated with tags serves two paths; the first tag of *)
(* one path is invalidated or its version incremented, and its version     *)
(* counter expires.                                                        *)

PlainA == [path |-> PathA, do_not_cache |-> FALSE, bust |-> FALSE]
PlainB == [path |-> PathB, do_not_cache |-> FALSE, bust |-> FALSE]

\* The name the first tag of the decoration resolves to for a request.
FirstTag(v, request) == ResolveTags(request, v.tags, <<>>, <<>>).keys[1]

\* The names the versioned tags of the decoration resolve to for a request.
VersionedNames(v, request) ==
    LET vt == ResolveTags(request, v.tags, <<>>, <<>>).versioned
    IN {ResolveName(vt[i], request) : i \in 1..Len(vt)}

InitTags == Init /\ view.tags # <<>>

NextTags ==
    \/ \E request \in {PlainA, PlainB} : Call(request, RespOk, MaxTagOps)
    \/ InvalidateTag(FirstTag(view, PlainA), "default", TRUE, MaxTagOps)
    \/ BIncrement(FirstTag(view, PlainA), TRUE, MaxTagOps)
    \/ Expire(FirstTag(view, PlainA), MaxTagOps)

SpecTags == InitTags /\ [][NextTags]_vars

\* The keys the store holds after operation i of hist.
HeldAfter(i) == IF i = Len(hist) THEN DOMAIN cache ELSE hist[i + 1].had

\* Records i, i+1, i+2 of hist: a request that resolved a key, then an
\* increment of (or invalidate_tag on) one of its versioned tags on the
\* default backend, then the same request again.
BumpBetween(i) ==
    /\ IsCall(hist[i]) /\ hist[i].key # <<>>
    /\ hist[i + 1].op \in {"increment_group_version", "invalidate_tag"}
    /\ hist[i + 1].backend = "default"
    /\ hist[i + 1].arg \in VersionedNames(view, hist[i].request)
    /\ IsCall(hist[i + 2]) /\ hist[i + 2].request = hist[i].request

(* C2 as stated: when increment_group_version(tag) or invalidate_tag(tag)  *)
(* runs between two identical requests whose tags contain versioned(tag),  *)
(* the requests resolve to different keys, the second is a miss and        *)
(* invokes the view, and an entry stored for the first is still stored.    *)
C2_AsStated ==
    \A i \in 1..(Len(hist) - 2) :
        BumpBetween(i) =>
            /\ hist[i + 2].key # hist[i].key
            /\ ~hist[i + 2].found /\ hist[i + 2].invoked = 1
            /\ hist[i].key \in HeldAfter(i) => hist[i].key \in HeldAfter(i + 2)

(* C2, amended: the two requests resolve to different keys and an entry    *)
(* stored for the first is still stored; the second is a miss and invokes  *)
(* the view unless an entry was already stored under the second key before *)
(* the first request (left from an earlier life of the counter, which      *)
(* restarts after it expires).                                             *)
C2_VersionChangesKey ==
    \A i \in 1..(Len(hist) - 2) :
        BumpBetween(i) =>
            /\ hist[i + 2].key # hist[i].key
            /\ hist[i].key \in HeldAfter(i) => hist[i].key \in HeldAfter(i + 2)
            /\ hist[i + 2].key \notin hist[i].had =>
                  ~hist[i + 2].found /\ hist[i + 2].invoked = 1
            /\ hist[i + 2].key \in hist[i].had =>
                  \E j \in 1..(i - 1) :
                      hist[j].op = "expire" /\ hist[j].key = hist[i + 1].arg

\* C2's case: the first request stored an entry, the version was
\* incremented, and the second request missed under another key.
C2_Witness ==
    \E i \in 1..(Len(hist) - 2) :
        /\ BumpBetween(i)
        /\ InSeq("set", hist[i].ops) /\ hist[i].key \in HeldAfter(i + 2)
        /\ hist[i + 2].key # hist[i].key /\ hist[i + 2].invoked = 1

----------------------------------------------------------------------------
(* C4 as stated: for a view decorated with tags=[T], T a regular tag, once *)
(* invalidate_tag(T) has returned on the default backend no entry stored   *)
(* for the view is left, and the next identical request is a miss.         *)
C4_AsStated ==
    /\ (Len(hist) > 0 /\ Last.op = "invalidate_tag" /\ Last.backend = "default"
            /\ view.tags = <<StrTag(Last.arg)>>) =>
          \A k \in DOMAIN cache : ~IsEntryKey(k)
    /\ \A i \in 1..(Len(hist) - 2) :
          (/\ IsCall(hist[i]) /\ InSeq("set", hist[i].ops)
           /\ hist[i + 1].op = "invalidate_tag" /\ hist[i + 1].backend = "default"
           /\ view.tags = <<StrTag(hist[i + 1].arg)>>
           /\ IsCall(hist[i + 2]) /\ hist[i + 2].request = hist[i].request) =>
             ~hist[i + 2].found

----------------------------------------------------------------------------
(* SpecInvalidate: invalidate_tag and invalidate_tags on the default       *)
(* backend and on registered backends, over a store that requests fill.    *)

NextInvalidate ==
    \/ \E request \in {PlainA, PlainB} : Call(request, RespOk, MaxEngineOps)
    \/ \E tag \in {TagG, TagT}, b \in BackendNames :
          InvalidateTag(tag, b, TRUE, MaxEngineOps)
    \/ \E tags \in {<<TagG, TagT>>, <<TagT, TagT>>}, b \in BackendNames :
          InvalidateTags(tags, b, TRUE, MaxEngineOps)

SpecInvalidate == Init /\ [][NextInvalidate]_vars

\* How often op occurs in a sequence of operation names.
Count(op, ops) == Cardinality({i \in 1..Len(ops) : ops[i] = op})

\* What increment_group_version(tag) of the backend of the last operation
\* does in the state that operation started from.
LastIncrement(tag) ==
    IncrementGroupVersion(Last.backend, before.cache, tag, TRUE)

LastIsInvalidateTag == Len(hist) > 0 /\ Last.op = "invalidate_tag"
LastIsInvalidateTags == Len(hist) > 0 /\ Last.op = "invalidate_tags"

\* invalidate_tag falls back to invalidate_by_surrogate exactly on the
\* exceptions of the set signals, returns what increment_group_version
\* returned when it raised nothing, and lets every other exception through
\* without falling back; invalidate_tags does the same for every tag.
FallsBackExactlyOn(signals) ==
    /\ LastIsInvalidateTag =>
          LET inc == LastIncrement(Last.arg) IN
          /\ Last.ops[1] = "increment_group_version"
          /\ InSeq("invalidate_by_surrogate", Last.ops) <=> inc.exc \in signals
          /\ inc.exc = "" => Last.exc = "" /\ Last.ret = inc.ret
          /\ inc.exc \in signals =>
                /\ Last.exc = ""
                /\ Last.ret = InvalidateBySurrogate(Last.backend, before.cache,
                                                    before.stub, Last.arg).ret
          /\ (inc.exc # "" /\ inc.exc \notin signals) =>
                /\ Last.exc = inc.exc
                /\ cache = before.cache /\ stub = before.stub
    /\ LastIsInvalidateTags =>
          LET inc == LastIncrement(Last.arg[1]) IN
          /\ inc.exc \in signals =>
                /\ Last.exc = ""
                /\ Count("invalidate_by_surrogate", Last.ops) = Len(Last.arg)
          /\ inc.exc = "" =>
                /\ Last.exc = ""
                /\ Count("invalidate_by_surrogate", Last.ops) = 0
          /\ (inc.exc # "" /\ inc.exc \notin signals) =>
                /\ Last.exc = inc.exc
                /\ Count("invalidate_by_surrogate", Last.ops) = 0
                /\ cache = before.cache /\ stub = before.stub

----------------------------------------------------------------------------
(* SpecSurrogate: DjangoCacheBackend used directly: entries are set with   *)
(* surrogate keys, deleted, invalidated by surrogate key, and expire.      *)

KeyOne == <<"k", "1">>
KeyTwo == <<"k", "2">>

InitBackend == Init /\ view.tags = <<>>

NextSurrogate ==
    \/ \E key \in {KeyOne, KeyTwo},
          surrogate_keys \in {<<TagT>>, <<TagT, TagU>>, <<TagU>>} :
          BSet(key, RespOk, 300, surrogate_keys, MaxBackendOps)
    \/ BSet(KeyOne, RespBinary, 300, <<TagT>>, MaxBackendOps)
    \/ \E key \in {KeyOne, KeyTwo} : BDelete(key, MaxBackendOps)
    \/ \E surrogate_key \in {TagT, TagU} :
          BInvalidateBySurrogate(surrogate_key, MaxBackendOps)
    \/ \E k \in DOMAIN cache : Expire(k, MaxBackendOps)

SpecSurrogate == InitBackend /\ [][NextSurrogate]_vars

\* Records i..j of hist are calls of set, and when record i began the
\* store held no index entry for surrogate key tag.
SetsSinceUnindexed(i, j, tag) ==
    /\ \A m \in i..j : hist[m].op = "set"
    /\ IndexKey(tag) \notin hist[i].had

\* The keys stored by the successful sets among records i..j that carried
\* surrogate key tag.
StoredWith(i, j, tag) ==
    {hist[m].key : m \in {x \in i..j : hist[x].exc = "" /\ InSeq(tag, hist[x].arg)}}

LastIsInvalidateBySurrogate ==
    Len(hist) > 0 /\ Last.op = "invalidate_by_surrogate"

(* C3: when invalidate_by_surrogate(T) follows a run of sets that began    *)
(* with T unindexed, it returns the number N of distinct keys stored with  *)
(* T in that run and afterwards get misses for each of them; a repeated    *)
(* invalidate_by_surrogate(T) returns 0, and so does one on a tag that no  *)
(* index entry exists for.                                                 *)
C3_InvalidateComplete ==
    LastIsInvalidateBySurrogate =>
        LET n == Len(hist) IN
        /\ \A i \in 1..n :
              SetsSinceUnindexed(i, n - 1, Last.arg) =>
                  /\ Last.ret = Cardinality(StoredWith(i, n - 1, Last.arg))
                  /\ \A k \in StoredWith(i, n - 1, Last.arg) :
                        ~DjangoGet(cache, k).found
        /\ (n > 1 /\ hist[n - 1].op = "invalidate_by_surrogate"
                  /\ hist[n - 1].arg = Last.arg) => Last.ret = 0
        /\ IndexKey(Last.arg) \notin Last.had =>
              Last.ret = 0 /\ cache = before.cache

\* C3's case: two entries with distinct keys were stored with T, one of
\* them with another tag as well, and invalidate_by_surrogate(T) returned 2.
C3_Witness ==
    /\ LastIsInvalidateBySurrogate
    /\ Len(hist) = 3
    /\ SetsSinceUnindexed(1, 2, Last.arg)
    /\ StoredWith(1, 2, Last.arg) = {KeyOne, KeyTwo}
    /\ hist[1].arg # hist[2].arg
    /\ Last.ret = 2
    /\ ~Has(cache, KeyOne) /\ ~Has(cache, KeyTwo)

----------------------------------------------------------------------------
(* SpecVersion: the version counters of DjangoCacheBackend, read,          *)
(* incremented and expiring.                                               *)

GroupTimeouts == {600, VersionedDefaultTimeout}

NextVersion ==
    \/ \E group \in {TagG, TagT}, timeout \in GroupTimeouts :
          BGetGroupVersion(group, timeout, MaxBackendOps)
    \/ \E group \in {TagG, TagT}, keepTtl \in BOOLEAN :
          BIncrement(group, keepTtl, MaxBackendOps)
    \/ \E k \in DOMAIN cache : Expire(k, MaxBackendOps)

SpecVersion == InitBackend /\ [][NextVersion]_vars

LastIsGet == Len(hist) > 0 /\ Last.op = "get_group_version"
LastIsIncrement == Len(hist) > 0 /\ Last.op = "increment_group_version"

\* Store c differs from store d at most at key k.
SameExceptAt(c, d, k) ==
    \A x \in (DOMAIN c \cup DOMAIN d) \ {k} : SameAt(c, d, x)

(* C9: get_group_version(tag, ttl) returns the value of an existing        *)
(* counter and changes nothing, or creates the counter with value 1 and    *)
(* TTL ttl when it is absent; increment_group_version(tag) on an existing  *)
(* counter with value v stores and returns v + 1, and a get_group_version  *)
(* that follows returns v + 1.                                             *)
C9_GetOrInitialise ==
    /\ LastIsGet =>
          LET g == Last.arg.group IN
          IF Has(before.cache, g)
          THEN Last.ret = before.cache[g].v /\ cache = before.cache
          ELSE /\ Last.ret = 1
               /\ cache = StoreSet(before.cache, g, 1, Last.arg.timeout)
    /\ (LastIsIncrement /\ Has(before.cache, Last.arg)) =>
          /\ Last.exc = ""
          /\ Last.ret = before.cache[Last.arg].v + 1
          /\ Has(cache, Last.arg) /\ cache[Last.arg].v = Last.ret
          /\ SameExceptAt(cache, before.cache, Last.arg)
    /\ (/\ LastIsGet /\ Len(hist) > 1
        /\ hist[Len(hist) - 1].op = "increment_group_version"
        /\ hist[Len(hist) - 1].arg = Last.arg.group
        /\ Last.arg.group \in hist[Len(hist) - 1].had) =>
          Last.ret = hist[Len(hist) - 1].ret

\* C9's case: a counter was created by get_group_version, incremented to
\* 2 and then 3, and read again as 3.
C9_Witness ==
    /\ Len(hist) = 4 /\ LastIsGet
    /\ hist[1].op = "get_group_version" /\ hist[1].ret = 1
    /\ hist[1].arg.group = Last.arg.group
    /\ hist[1].arg.timeout # Last.arg.timeout
    /\ hist[2].op = "increment_group_version" /\ hist[2].ret = 2
    /\ hist[3].op = "increment_group_version" /\ hist[3].ret = 3
    /\ Last.ret = 3
    /\ cache[Last.arg.group].v = 3

(* C10: increment_group_version(tag) on a tag whose counter does not       *)
(* exist raises nothing, sets the counter to 2 and returns 2, and the next *)
(* get_group_version(tag, ttl) returns 2.                                  *)
C10_IncrementAbsent ==
    /\ (LastIsIncrement /\ ~Has(before.cache, Last.arg)) =>
          /\ Last.exc = ""
          /\ Last.ret = 2
          /\ Has(cache, Last.arg) /\ cache[Last.arg].v = 2
          /\ SameExceptAt(cache, before.cache, Last.arg)
    /\ (/\ LastIsGet /\ Len(hist) > 1
        /\ hist[Len(hist) - 1].op = "increment_group_version"
        /\ hist[Len(hist) - 1].arg = Last.arg.group
        /\ Last.arg.group \notin hist[Len(hist) - 1].had) =>
          Last.ret = 2 /\ cache = before.cache

\* C10's case: a counter that had expired was incremented and then read.
C10_Witness ==
    /\ Len(hist) = 4 /\ LastIsGet
    /\ hist[1].op = "get_group_version"
    /\ hist[2].op = "expire" /\ hist[2].key = hist[1].arg.group
    /\ hist[3].op = "increment_group_version"
    /\ hist[3].arg = Last.arg.group /\ hist[3].arg = hist[2].key
    /\ hist[3].ret = 2 /\ Last.ret = 2

----------------------------------------------------------------------------
(* SpecCounter: concurrent callers of get_group_version and                *)
(* increment_group_version on the default backend, interleaved at the      *)
(* store operations; counters do not expire.                               *)

NextCounter ==
    \/ \E group \in {TagG, TagT} :
          BGetGroupVersion(group, VersionedDefaultTimeout, MaxCounterOps)
    \/ \E group \in {TagG, TagT} : IncrTry(group, TRUE, MaxCounterOps)
    \/ \E i \in 1..Len(incrs) : IncrSet(i, MaxCounterOps)

SpecCounter == InitBackend /\ [][NextCounter]_vars

\* The tag of a record of get_group_version or increment_group_version.
GroupOf(r) == IF r.op = "get_group_version" THEN r.arg.group ELSE r.arg

\* The records of calls that returned a version.
ReturnedVersion(r) ==
    r.op \in {"get_group_version", "increment_group_version"}

(* C11 as stated: under any interleaving of get_group_version and          *)
(* increment_group_version on a tag, without expiry, the stored counter is *)
(* never lower than a value stored or returned for that tag before.        *)
C11_AsStated ==
    \A i \in 1..Len(hist) :
        ReturnedVersion(hist[i]) =>
            /\ Has(cache, GroupOf(hist[i]))
            /\ cache[GroupOf(hist[i])].v >= hist[i].ret

----------------------------------------------------------------------------
(* SpecComposite: entries are set, read, deleted and invalidated through   *)
(* composites of the wrapped backends, and deleted on one wrapped backend  *)
(* directly.                                                               *)

DjangoPair == <<"default", "second">>
StubFirst == <<"no-version", "default">>

NextComposite ==
    \/ \E key \in {KeyOne, KeyTwo}, surrogate_keys \in {<<TagT>>, <<TagT, TagU>>} :
          CSet(DjangoPair, key, RespOk, 300, surrogate_keys, MaxCompositeOps)
    \/ \E backends \in {<<>>, StubFirst} :
          CSet(backends, KeyOne, RespOk, 300, <<TagT>>, MaxCompositeOps)
    \/ CSet(DjangoPair, KeyOne, RespBinary, 300, <<TagT>>, MaxCompositeOps)
    \/ \E backends \in {<<>>, DjangoPair, StubFirst} :
          CDelete(backends, KeyOne, MaxCompositeOps)
    \/ \E backends \in {<<>>, DjangoPair, StubFirst} :
          CInvalidateBySurrogate(backends, TagT, MaxCompositeOps)
    \/ \E backends \in {<<>>, DjangoPair, StubFirst} :
          CInvalidateBySurrogates(backends, <<TagT, TagU>>, MaxCompositeOps)
    \/ \E backends \in {DjangoPair, StubFirst}, read_from \in {-1, 0, 1, 2} :
          CGet(backends, read_from, KeyOne, MaxCompositeOps)
    \/ CGet(<<>>, 0, KeyOne, MaxCompositeOps)
    \/ DirectDelete("second", KeyOne, MaxCompositeOps)

SpecComposite == InitBackend /\ [][NextComposite]_vars

LastOnComposite(op) ==
    Len(hist) > 0 /\ Last.backend = "composite" /\ Last.op = op

\* The world the last operation started from.
WorldBefore == World(before.cache, before.cache2, before.stub)

\* Store of the Django backend b is what op made of it, for every Django
\* backend of the last composite; the stores of the others are untouched.
\* Applied(b, w) is the world after the operation on b alone.
DjangoStoresAre(alone) ==
    \A b \in {"default", "second"} :
        StoreOf(b, TheWorld) =
            IF InSeq(b, Last.backends) THEN StoreOf(b, alone[b])
            ELSE StoreOf(b, WorldBefore)

SetAlone ==
    [b \in {"default", "second"} |->
        BackendSet(b, WorldBefore,
                   [key |-> Last.key, response |-> Last.produced,
                    timeout |-> 300, surrogate_keys |-> Last.arg]).w]
DeleteAlone ==
    [b \in {"default", "second"} |-> BackendDelete(b, WorldBefore, Last.key).w]
InvalidateAlone ==
    [b \in {"default", "second"} |->
        BackendInvalidateBySurrogate(b, WorldBefore, Last.arg).w]
InvalidatesAlone ==
    [b \in {"default", "second"} |->
        BackendInvalidateBySurrogates(b, WorldBefore, Last.arg, 0).w]

C14_ReadFromOnly ==
    LastOnComposite("get") =>
        IF 0 <= Last.read_from /\ Last.read_from < Len(Last.backends)
        THEN LET b == Last.backends[Last.read_from + 1]
                 got == BackendGet(b, TheWorld, Last.key)
             IN /\ Last.ops = <<b>>
                /\ Last.found = got.found
                /\ Last.result = got.response
                /\ Last.exc = got.exc
        ELSE /\ Last.ops = <<>>
             /\ ~Last.found /\ Last.exc = "" /\ Last.result = NoResponse

\* C14's case: the backend at read_from misses while the other backend of
\* the composite holds the key, and get returns a miss.
C14_Witness ==
    /\ LastOnComposite("get")
    /\ Last.backends = DjangoPair /\ Last.read_from = 1
    /\ Has(cache, Last.key) /\ ~Has(cache2, Last.key)
    /\ ~Last.found

\* C14's other case: read_from is outside the list and get returns a miss.
C14_WitnessOutside ==
    /\ LastOnComposite("get")
    /\ Last.backends = DjangoPair /\ Last.read_from \in {-1, 2}
    /\ Has(cache, Last.key) /\ ~Last.found /\ Last.exc = ""

\* The sum of f over the elements of sequence s.
RECURSIVE SumOver(_, _)
SumOver(f, s) == IF s = <<>> THEN 0 ELSE f[s[1]] + SumOver(f, Tail(s))

\* What backend b alone returns for the last operation's arguments in the
\* world the operation started from.
DeletedAlone ==
    [b \in WrappedNames |-> BackendDelete(b, WorldBefore, Last.key).ret]
InvalidatedAlone ==
    [b \in WrappedNames |->
        BackendInvalidateBySurrogate(b, WorldBefore, Last.arg).ret]
InvalidatedAllAlone ==
    [b \in WrappedNames |->
        BackendInvalidateBySurrogates(b, WorldBefore, Last.arg, 0).ret]

(* C17: delete of a composite returns true exactly when at least one       *)
(* wrapped backend reported a deletion; invalidate_by_surrogate and        *)
(* invalidate_by_surrogates return the sum of the counts of all wrapped    *)
(* backends.                                                               *)
C17_CompositeReturns ==
    /\ LastOnComposite("delete") =>
          (Last.ret = 1) <=>
              \E i \in 1..Len(Last.backends) : DeletedAlone[Last.backends[i]]
    /\ LastOnComposite("invalidate_by_surrogate") =>
          Last.ret = SumOver(InvalidatedAlone, Last.backends)
    /\ LastOnComposite("invalidate_by_surrogates") =>
          Last.ret = SumOver(InvalidatedAllAlone, Last.backends)

\* C17's case: the first backend of the composite held the key and the
\* last did not, and delete returned true; and the two Django backends
\* each invalidated entries, the composite returning their sum.
C17_Witness ==
    /\ LastOnComposite("delete")
    /\ Last.backends = DjangoPair
    /\ Has(before.cache, Last.key) /\ ~Has(before.cache2, Last.key)
    /\ Last.ret = 1

C17_WitnessSum ==
    /\ LastOnComposite("invalidate_by_surrogates")
    /\ Last.backends = DjangoPair
    /\ InvalidatedAllAlone["default"] = 2
    /\ InvalidatedAllAlone["second"] = 2
    /\ Last.ret = 4

----------------------------------------------------------------------------
(* SpecCompositeVersion: version counters read and incremented on the      *)
(* wrapped backends directly and through composites of them.               *)

StubOnly == <<"no-version">>
StubThenPair == <<"no-version", "default", "second">>
StubBetween == <<"default", "no-version", "second">>

VersionLists == {<<>>, StubOnly, StubThenPair, StubBetween}

NextCompositeVersion ==
    \/ \E backends \in VersionLists :
          CGetGroupVersion(backends, TagG, 600, MaxCompositeOps)
    \/ \E backends \in VersionLists :
          CIncrement(backends, TagG, TRUE, MaxCompositeOps)
    \/ \E b \in WrappedNames, group \in {TagG, TagT} :
          DirectGetGroupVersion(b, group, 600, MaxCompositeOps)
    \/ \E b \in WrappedNames, group \in {TagG, TagT} :
          DirectIncrement(b, group, TRUE, MaxCompositeOps)

SpecCompositeVersion == InitBackend /\ [][NextCompositeVersion]_vars

\* The last operation unchanged the stores and the list of the stub.
WorldUnchanged == TheWorld = WorldBefore

(* C12: get_group_version and increment_group_version of a backend that    *)
(* implements only get, set, delete and invalidate_by_surrogate always     *)
(* raise NotImplementedError; they return no value and change nothing.     *)
C12_UnsupportedIsExplicit ==
    (/\ Len(hist) > 0 /\ Last.backend = "no-version"
     /\ Last.op \in {"get_group_version", "increment_group_version"}) =>
        /\ Last.exc = "NotImplementedError"
        /\ Last.ret = 0
        /\ WorldUnchanged

\* C12's case: the same increment that gave a version on the Django
\* backend raised on the backend without versioning.
C12_Witness ==
    /\ Len(hist) = 2
    /\ hist[1].backend = "default" /\ hist[1].op = "increment_group_version"
    /\ hist[1].ret = 2
    /\ Last.backend = "no-version" /\ Last.op = "increment_group_version"
    /\ Last.arg = hist[1].arg
    /\ Last.exc = "NotImplementedError"

\* The backends of a list that support group versioning, in list order.
Supporting(backends) == SelectSeq(backends, IsDjango)

IncrementAlone ==
    [b \in {"default", "second"} |->
        BackendIncrementGroupVersion(b, WorldBefore, Last.arg, TRUE).w]

(* C15: increment_group_version of a composite increments every wrapped    *)
(* backend that supports versioning exactly once, returns the value of the *)
(* first of them in list order, and raises NotImplementedError only when   *)
(* no wrapped backend supports it.                                         *)
C15_IncrementAll ==
    LastOnComposite("increment_group_version") =>
        /\ Last.ops = Last.backends
        /\ DjangoStoresAre(IncrementAlone)
        /\ stub = before.stub
        /\ IF Supporting(Last.backends) = <<>>
           THEN Last.exc = "NotImplementedError"
           ELSE /\ Last.exc = ""
                /\ Last.ret = BackendIncrementGroupVersion(
                                  Supporting(Last.backends)[1], WorldBefore,
                                  Last.arg, TRUE).ret

\* C15's case: the first backend has no versioning, the two others held
\* different versions; both were incremented and the first one's new
\* version was returned.
C15_Witness ==
    /\ LastOnComposite("increment_group_version")
    /\ Last.backends = StubThenPair
    /\ Has(before.cache, Last.arg) /\ Has(before.cache2, Last.arg)
    /\ before.cache[Last.arg].v # before.cache2[Last.arg].v
    /\ cache[Last.arg].v = before.cache[Last.arg].v + 1
    /\ cache2[Last.arg].v = before.cache2[Last.arg].v + 1
    /\ Last.ret = cache[Last.arg].v

(* C16: get_group_version of a composite returns the value of the first    *)
(* wrapped backend, in list order, that supports versioning, asks no later *)
(* backend and leaves their counters alone, and raises NotImplementedError *)
(* only when no wrapped backend supports it.                               *)
C16_FirstSupporting ==
    LastOnComposite("get_group_version") =>
        IF Supporting(Last.backends) = <<>>
        THEN /\ Last.exc = "NotImplementedError"
             /\ Last.ops = Last.backends
             /\ WorldUnchanged
        ELSE LET b == Supporting(Last.backends)[1]
                 alone == BackendGetGroupVersion(b, WorldBefore,
                                                 Last.arg.group,
                                                 Last.arg.timeout)
             IN /\ Last.exc = ""
                /\ Last.ret = alone.ret
                /\ TheWorld = alone.w
                /\ Last.ops[Len(Last.ops)] = b
                /\ \A i \in 1..(Len(Last.ops) - 1) : ~IsDjango(Last.ops[i])
                /\ \E n \in 1..Len(Last.backends) :
                      Last.ops = SubSeq(Last.backends, 1, n)

\* C16's case: the first backend has no versioning, the second answered,
\* and the third, which held no counter, still holds none.
C16_Witness ==
    /\ LastOnComposite("get_group_version")
    /\ Last.backends = StubThenPair
    /\ Has(cache, Last.arg.group) /\ ~Has(cache2, Last.arg.group)
    /\ Last.ret = cache[Last.arg.group].v /\ Last.ret = 2
    /\ Last.ops = <<"no-version", "default">>

----------------------------------------------------------------------------
\* The cached responses the last operation removed from the default store.
EntriesInvalidated ==
    {k \in DOMAIN before.cache : IsEntryKey(k) /\ ~Has(cache, k)}

\* The sum of what invalidate_tag returns for each tag in turn, from store
\* c and stub list st on.
RECURSIVE PerTagSum(_, _, _, _)
PerTagSum(b, c, st, tags) ==
    IF tags = <<>> THEN 0
    ELSE LET r == InvalidateTagOf(b, c, st, tags[1], TRUE)
         IN r.ret + PerTagSum(b, r.cache, r.stub, Tail(tags))

(* C18 as stated: invalidate_tags(tags, backend) returns the total number  *)
(* of cache entries invalidated across the tags, which is the sum of the   *)
(* results of invalidate_tag's policy applied to each tag.                 *)
C18_AsStated ==
    (LastIsInvalidateTags /\ Last.exc = "") =>
        /\ Last.ret = PerTagSum(Last.backend, before.cache, before.stub,
                                Last.arg)
        /\ Last.backend = "default" =>
              Last.ret = Cardinality(EntriesInvalidated)

----------------------------------------------------------------------------
\* The last operation is a call that reached the view on the caching path
\* (no bypass) and got a 200 response from it.
LastCallProduced200 ==
    /\ Len(hist) > 0 /\ IsCall(Last)
    /\ Last.key # <<>> /\ Last.invoked = 1
    /\ Last.produced.status = 200

\* The keys of cached responses in store c.
EntryKeys(c) == {k \in DOMAIN c : IsEntryKey(k)}

(* C19: for a 200 response with a callable render the wrapper registers    *)
(* exactly one continuation and calls no set, so the store's entries are   *)
(* as before and a key that was absent stays absent; when the continuation *)
(* runs it stores exactly one entry, under the key computed for the        *)
(* request. For a 200 response without render the entry is stored when the *)
(* wrapper returns.                                                        *)
C19_DeferredStore ==
    /\ (LastCallProduced200 /\ Last.produced.render) =>
          /\ Last.exc = ""
          /\ ~InSeq("set", Last.ops)
          /\ Count("add_post_render_callback", Last.ops) = 1
          /\ Len(pending) = Len(before.pending) + 1
          /\ SubSeq(pending, 1, Len(before.pending)) = before.pending
          /\ pending[Len(pending)].key = Last.key
          /\ pending[Len(pending)].response = Last.produced
          /\ SameEntries(cache, before.cache)
          /\ ~Has(before.cache, Last.key) => ~Has(cache, Last.key)
    /\ (Len(hist) > 0 /\ Last.op = "render" /\ Last.exc = "") =>
          /\ \E i \in 1..Len(before.pending) :
                /\ before.pending[i].key = Last.key
                /\ pending = RemoveAt(before.pending, i)
                /\ HoldsEntry(cache, Last.key, before.pending[i].response,
                              view.timeout)
          /\ EntryKeys(cache) = EntryKeys(before.cache) \cup {Last.key}
          /\ \E j \in 1..(Len(hist) - 1) :
                /\ IsCall(hist[j]) /\ hist[j].key = Last.key
                /\ InSeq("add_post_render_callback", hist[j].ops)
    /\ (LastCallProduced200 /\ ~Last.produced.render /\ Last.exc = "") =>
          /\ InSeq("set", Last.ops)
          /\ pending = before.pending
          /\ HoldsEntry(cache, Last.key, Last.produced, view.timeout)

\* C19's case: a request missed, its view returned a response to render
\* later, the key stayed absent, and the continuation then stored it.
C19_Witness ==
    /\ Len(hist) = 2
    /\ IsCall(hist[1]) /\ hist[1].produced.render
    /\ Last.op = "render" /\ Last.key = hist[1].key
    /\ ~Has(before.cache, Last.key)
    /\ Has(cache, Last.key)
    /\ pending = <<>>

----------------------------------------------------------------------------
(* SpecRegistry: backends are resolved by name, the registry is cleared,   *)
(* and entries are stored in the Django cache meanwhile.                   *)

RegistryNames == {"django", "second", "combo", "broken", "missing"}

NextRegistry ==
    \/ \E name \in RegistryNames : GetBackend(name, MaxBackendOps)
    \/ ClearBackendCache(MaxBackendOps)
    \/ BSet(KeyOne, RespOk, 300, <<TagT>>, MaxBackendOps)

SpecRegistry == InitBackend /\ [][NextRegistry]_vars

\* Record i of hist is a get_backend_by_name that returned an instance.
Resolved(i) ==
    hist[i].op = "get_backend_by_name" /\ hist[i].exc = ""

\* No clear_backend_cache() among records i+1 .. j-1 of hist.
NoClearBetween(i, j) ==
    \A m \in (i + 1)..(j - 1) : hist[m].op # "clear_backend_cache"

\* The instances the instance id holds as its backends, with their names.
NestedOf(name, id) ==
    {<<BackendsConfig[name].backends[p], instances[id].backends[p]>> :
        p \in 1..Len(instances[id].backends)}

(* C20: once get_backend_by_name(n) has succeeded, every later call before *)
(* clear_backend_cache() returns the same instance and constructs nothing, *)
(* also when n is resolved as a nested name of a composite; after a clear  *)
(* the next resolution constructs a new instance; clearing leaves the data *)
(* of the caches as it is.                                                 *)
C20_InstanceStability ==
    /\ \A i, j \in 1..Len(hist) :
          (i < j /\ Resolved(i) /\ Resolved(j) /\ NoClearBetween(i, j)) =>
              /\ hist[j].arg = hist[i].arg =>
                    hist[j].ret = hist[i].ret /\ hist[j].ops = <<>>
              /\ \A pair \in NestedOf(hist[j].arg, hist[j].ret) :
                    pair[1] = hist[i].arg =>
                        /\ pair[2] = hist[i].ret
                        /\ ~InSeq(hist[i].arg, hist[j].ops)
              /\ \A pair \in NestedOf(hist[i].arg, hist[i].ret) :
                    pair[1] = hist[j].arg =>
                        hist[j].ret = pair[2] /\ hist[j].ops = <<>>
    /\ \A j \in 2..Len(hist) :
          (Resolved(j) /\ hist[j - 1].op = "clear_backend_cache") =>
              /\ hist[j].ops # <<>>
              /\ \A i \in 1..(j - 1) : Resolved(i) => hist[i].ret # hist[j].ret
              /\ \A i \in 1..(j - 1), pair \in NestedOf(hist[j].arg, hist[j].ret) :
                    Resolved(i) => hist[i].ret # pair[2]
    /\ (Len(hist) > 0 /\ Last.op = "clear_backend_cache") =>
          /\ cache = before.cache /\ cache2 = before.cache2
          /\ instances = before.instances
          /\ DOMAIN backend_cache = {}

\* C20's case: a Django backend was resolved, then the composite that
\* names it, then the registry was cleared and the composite resolved anew.
C20_Witness ==
    /\ Len(hist) = 4
    /\ Resolved(1) /\ hist[1].arg = "django"
    /\ Resolved(2) /\ hist[2].arg = "combo"
    /\ instances[hist[2].ret].backends[1] = hist[1].ret
    /\ hist[2].ops = <<"second", "combo">>
    /\ hist[3].op = "clear_backend_cache"
    /\ Resolved(4) /\ hist[4].arg = "combo"
    /\ hist[4].ops = <<"django", "second", "combo">>
    /\ hist[4].ret # hist[2].ret

(* C21: get_backend_by_name(n) for a name that is neither kept in the     *)
(* registry nor configured in BACKENDS raises ValueError ("Unknown cache   *)
(* backend"): it returns no instance, constructs none, and keeps nothing   *)
(* under n, also when n is reached as a nested name of a composite.        *)
C21_UnknownFails ==
    /\ \A n \in DOMAIN backend_cache : n \in DOMAIN BackendsConfig
    /\ (/\ Len(hist) > 0 /\ Last.op = "get_backend_by_name"
        /\ Last.arg \notin DOMAIN before.backend_cache
        /\ Last.arg \notin DOMAIN BackendsConfig) =>
          /\ Last.exc = "ValueError"
          /\ Last.ret = 0
          /\ Last.ops = <<>>
          /\ backend_cache = before.backend_cache
          /\ instances = before.instances
    /\ (/\ Len(hist) > 0 /\ Last.op = "get_backend_by_name"
        /\ Last.arg = "broken") =>
          /\ Last.exc = "ValueError"
          /\ Last.ret = 0
          /\ "broken" \notin DOMAIN backend_cache

\* C21's case: after backends were resolved and kept, an unknown name was
\* asked for and the call raised.
C21_Witness ==
    /\ Len(hist) > 1
    /\ Last.op = "get_backend_by_name" /\ Last.arg = "missing"
    /\ Last.exc = "ValueError"
    /\ DOMAIN before.backend_cache = {"django", "second", "combo"}
    /\ backend_cache = before.backend_cache

----------------------------------------------------------------------------
(* SpecMalformed: the default backend is read on keys of every kind the    *)
(* store holds, and the decorated view serves responses whose stored text  *)
(* may have no encoding in the charset of their content type.              *)

PlainRequest(path) == [path |-> path, do_not_cache |-> FALSE, bust |-> FALSE]

NextMalformed ==
    \/ \E path \in {PathA, PathB}, response \in {RespOk, RespEuro} :
          Call(PlainRequest(path), response, MaxBackendOps)
    \/ BGetGroupVersion(TagG, 300, MaxBackendOps)
    \/ BSet(KeyOne, RespOk, 300, <<TagT>>, MaxBackendOps)
    \/ \E key \in {KeyOne, TagG, IndexKey(TagT)} : BGet(key, MaxBackendOps)

SpecMalformed == InitBackend /\ [][NextMalformed]_vars

\* The value store c holds under key cannot be turned back into a response:
\* it is no dict, or its text has no encoding in its charset.
Malformed(c, key) ==
    /\ Has(c, key)
    /\ \/ StoredShape(key) # "dict"
       \/ ~Encodable(c[key].v.content, Charset(c[key].v.content_type))

(* C22: when the value stored under a key cannot be decoded back into a    *)
(* response, DjangoCacheBackend.get returns a miss and raises nothing, and *)
(* the wrapper goes on to call the view.                                   *)
C22_AsStated ==
    (Len(hist) > 0 /\ Last.op \in {"get", "call"}
     /\ Last.key # <<>> /\ Malformed(before.cache, Last.key)) =>
        /\ Last.exc = ""
        /\ ~Last.found
        /\ Last.op = "call" => Last.invoked = 1

----------------------------------------------------------------------------
(* SpecRedisIndex: concurrent callers add cache keys to the native-set     *)
(* index; nothing is removed and nothing expires.                          *)

NextRedisIndex ==
    \/ \E surrogate_key \in {TagT, TagU}, cache_key \in {KeyOne, KeyTwo} :
          RAddPipeline(surrogate_key, cache_key, MaxBackendOps)
    \/ \E i \in 1..Len(procs) : RAddExecute(i, MaxBackendOps)

SpecRedisIndex == InitBackend /\ [][NextRedisIndex]_vars

(* C23: with the native-set index, whatever the interleaving of concurrent *)
(* add(tag, k) calls, get_keys(tag) contains the key of every add that     *)
(* has returned, and nothing else: no add is lost.                         *)
C23_NoAddLost ==
    \A tag \in {TagT, TagU} :
        RedisGetKeys(rsets, tag) =
            {hist[i].key : i \in {j \in 1..Len(hist) :
                                    hist[j].op = "add" /\ hist[j].arg = tag}}

\* C23's case: two callers built their pipelines for the same tag before
\* either executed, and both keys are in the index.
C23_Witness ==
    /\ Len(hist) = 4
    /\ hist[1].op = "pipeline" /\ hist[2].op = "pipeline"
    /\ hist[3].op = "add" /\ hist[4].op = "add"
    /\ hist[1].arg = TagT /\ hist[2].arg = TagT
    /\ hist[3].key # hist[4].key
    /\ RedisGetKeys(rsets, TagT) = {KeyOne, KeyTwo}

----------------------------------------------------------------------------
(* SpecHeader: add_surrogate_headers on lists of surrogate keys: a key, up *)
(* to MaxRepeat copies of a large key, and up to MaxTail further keys.     *)

MaxRepeat == 16
MaxTail == 2

KeyShapes ==
    { Run("a", 1), Run("a", 1024), Run("a", 1025), Run("ya", 512),
      Run("ya", 513), Run("e'", 512), Run("a", 300) \o Run("ya", 1) }

LargeKeys == { Run("a", 1024), Run("ya", 512), Run("e'", 500) }

SeqsUpTo(S, n) == UNION {[1..k -> S] : k \in 0..n}

HeaderInputs ==
    { head \o [i \in 1..n |-> large] \o tail :
        head \in SeqsUpTo(KeyShapes, 1), large \in LargeKeys,
        n \in 0..MaxRepeat, tail \in SeqsUpTo(KeyShapes, MaxTail) }

NextHeader == \E surrogate_keys \in HeaderInputs : HeaderCall(surrogate_keys)

SpecHeader == InitBackend /\ [][NextHeader]_vars

\* The keys of a list that are not larger than MAX_KEY_SIZE, in order.
NotOversized(ks) == SelectSeq(ks, LAMBDA k : KeySize(k) <= MAX_KEY_SIZE)

\* The bytes the first m keys of a list take in a header, each with its
\* separator.
RECURSIVE Cumulative(_, _)
Cumulative(ks, m) ==
    IF m = 0 THEN 0 ELSE KeySize(ks[m]) + 1 + Cumulative(ks, m - 1)

\* The keys of a list that precede its first key with which the cumulative
\* budget would overflow.
WithinBudget(ks) ==
    SubSeq(ks, 1, CHOOSE m \in 0..Len(ks) :
                     /\ Cumulative(ks, m) <= MAX_HEADER_SIZE
                     /\ m < Len(ks) => Cumulative(ks, m + 1) > MAX_HEADER_SIZE)

(* C24: the Surrogate-Key header add_surrogate_headers writes is at most   *)
(* MAX_HEADER_SIZE bytes long, holds no key larger than MAX_KEY_SIZE, and  *)
(* holds, in input order, the keys that are not too large and precede the  *)
(* first key that would overflow the budget; with no such key the header   *)
(* is not set.                                                             *)
C24_AsStated ==
    (Len(hist) > 0 /\ Last.op = "add_surrogate_headers") =>
        LET header == Last.result IN
        /\ header.present => header.size <= MAX_HEADER_SIZE
        /\ \A i \in 1..Len(header.keys) :
              KeySize(header.keys[i]) <= MAX_KEY_SIZE
        /\ header.keys = WithinBudget(NotOversized(Last.arg))
        /\ header.present <=> WithinBudget(NotOversized(Last.arg)) # <<>>

\* What of C24 holds on every list: the UTF-8 sizes of the keys written,
\* with their separators, stay within the budget, and the keys are the
\* ones the statement names.
C24_KeysWithinBudget ==
    (Len(hist) > 0 /\ Last.op = "add_surrogate_headers") =>
        LET header == Last.result IN
        /\ header.present => KeySize(JoinKeys(header.keys)) < MAX_HEADER_SIZE
        /\ \A i \in 1..Len(header.keys) :
              KeySize(header.keys[i]) <= MAX_KEY_SIZE
        /\ header.keys = WithinBudget(NotOversized(Last.arg))
        /\ header.present <=> WithinBudget(NotOversized(Last.arg)) # <<>>

----------------------------------------------------------------------------
(* SpecNormalize: _normalize_key on every string of up to MaxKeyLen        *)
(* characters, and again on what it returned.                              *)

MaxKeyLen == 4

KeyChars == {"a", "-", " ", "\t"}

KeyStrings == UNION {[1..n -> KeyChars] : n \in 0..MaxKeyLen}

NextNormalize ==
    \/ hist = <<>> /\ \E key \in KeyStrings : NormalizeCall(key)
    \/ NormalizeAgain

SpecNormalize == InitBackend /\ [][NextNormalize]_vars

(* C26: when normalization yields a key, normalizing that key yields the   *)
(* same key; what normalization yields is never the empty string and never *)
(* holds a space.                                                          *)
C26_NormalizeIdempotent ==
    /\ \A i \in 1..Len(hist) :
          hist[i].op = "normalize" =>
              \/ hist[i].result.none
              \/ /\ hist[i].result.key # <<>>
                 /\ ~InSeq(" ", hist[i].result.key)
    /\ Len(hist) = 2 =>
          /\ ~hist[2].result.none
          /\ hist[2].result.key = hist[1].result.key

\* C26's case: a key with outer whitespace and an inner space was
\* normalized, and the result was normalized again.
C26_Witness ==
    /\ Len(hist) = 2
    /\ hist[1].arg = <<"\t", "a", " ", "a">>
    /\ hist[1].result.key = <<"a", "-", "a">>
    /\ hist[2].arg = <<"a", "-", "a">>

----------------------------------------------------------------------------
(* SpecKeySet: a SurrogateKeySet is constructed from a list or a header,   *)
(* keys are added, and a caller changes the list the keys property gave.   *)

MaxKeySetOps == 3

KeyLists ==
    { <<>>, <<<<"a">>>>, <<<<"a">>, <<"b">>>>, <<<<"b">>, <<"a">>, <<"b">>>>,
      <<<<" ", "a", " ">>, <<"a">>>>, <<<<"a", " ", "b">>, <<"a", "-", "b">>>>,
      <<<<>>, <<" ">>, <<"\t">>>>, <<<<"a", "\t", "b">>, <<"b">>>> }

AddedKeys ==
    { <<"a">>, <<"b">>, <<>>, <<" ", "a">>, <<"a", " ", "b">>, <<"\t">>,
      <<"a", "\t", "b">>, <<"b", " ">> }

HeaderValues ==
    { <<>>, <<"a">>, <<"a", " ", "b">>, <<"b", " ", " ", "a", "\t", "b">>,
      <<" ", "\t">> }

NextKeySet ==
    \/ \E keys \in KeyLists : KsConstruct(keys, MaxKeySetOps)
    \/ \E header_value \in HeaderValues :
          KsFromHeader(header_value, MaxKeySetOps)
    \/ \E key \in AddedKeys : KsAdd(<<key>>, MaxKeySetOps)
    \/ KsAdd(<<<<"b">>, <<"a", " ">>, <<"b">>>>, MaxKeySetOps)
    \/ KsKeys(MaxKeySetOps)
    \/ \E x \in {<<>>, <<"a", " ", "b">>} : KsMutate(x, MaxKeySetOps)

SpecKeySet == InitBackend /\ [][NextKeySet]_vars

\* The strings record i of hist offered to the set.
OfferedBy(i) ==
    CASE hist[i].op \in {"construct", "add"} -> hist[i].arg
      [] hist[i].op = "from_header" -> Split(hist[i].arg, <<>>, <<>>)
      [] OTHER -> <<>>

\* The strings offered to the set since it was constructed, in order, each
\* with outer whitespace stripped and spaces replaced.
RECURSIVE OfferedFrom(_)
OfferedFrom(i) ==
    IF i = 0 THEN <<>>
    ELSE (IF hist[i].op \in {"construct", "from_header"} THEN <<>>
          ELSE OfferedFrom(i - 1))
         \o [j \in 1..Len(OfferedBy(i)) |-> ReplaceSpaces(Strip(OfferedBy(i)[j]))]

Offered == OfferedFrom(Len(hist))

\* The first position at which x was offered.
FirstOffered(x) ==
    CHOOSE i \in 1..Len(Offered) :
        Offered[i] = x /\ \A j \in 1..(i - 1) : Offered[j] # x

(* C25: after any sequence of constructions and add calls the key list of  *)
(* a SurrogateKeySet holds no empty string and no string with a space,     *)
(* holds no string twice, and lists the strings offered in the order they  *)
(* were first offered; changing the list the keys property returned does   *)
(* not change the set.                                                     *)
C25_KeySetInvariant ==
    /\ \A i \in 1..Len(keyset) :
          /\ keyset[i] # <<>>
          /\ ~InSeq(" ", keyset[i])
          /\ InSeq(keyset[i], Offered)
    /\ \A i, j \in 1..Len(keyset) :
          i < j => /\ keyset[i] # keyset[j]
                   /\ FirstOffered(keyset[i]) < FirstOffered(keyset[j])
    /\ \A i \in 1..Len(Offered) : Offered[i] # <<>> => InSeq(Offered[i], keyset)
    /\ (Len(hist) > 0 /\ Last.op = "keys") =>
          Last.result = keyset /\ handed.list = keyset
    /\ (Len(hist) > 0 /\ Last.op = "mutate") => keyset = before.keyset

\* C25's case: a set built from a list that repeats a key was asked for
\* its keys, and the caller appended a string with a space to the list.
C25_Witness ==
    /\ Len(hist) = 3
    /\ hist[1].op = "construct"
    /\ hist[1].arg = <<<<"b">>, <<"a">>, <<"b">>>>
    /\ hist[2].op = "keys"
    /\ Last.op = "mutate" /\ Last.arg = <<"a", " ", "b">>
    /\ keyset = <<<<"b">>, <<"a">>>>
    /\ handed.list = <<<<"b">>, <<"a">>, <<"a", " ", "b">>>>

----------------------------------------------------------------------------
(* SpecRoundTrip: sets built from every list of up to two tags of up to    *)
(* MaxTagLen characters (a letter, the space, the tab) go through          *)
(* to_header and from_header.                                              *)

MaxTagLen == 3

TagStrings == UNION {[1..n -> {"a", " ", "\t"}] : n \in 0..MaxTagLen}

TagLists == {<<>>} \cup {<<t>> : t \in TagStrings}
            \cup {<<t, u>> : t \in TagStrings, u \in TagStrings}

NextRoundTrip ==
    \/ hist = <<>> /\ \E keys \in TagLists : KsConstruct(keys, MaxKeySetOps)
    \/ KsRoundTrip

SpecRoundTrip == InitBackend /\ [][NextRoundTrip]_vars

\* A tag with whitespace between two of its other characters.
InternalWhitespace(tag) ==
    \E i \in 1..Len(Strip(tag)) : IsSpace(Strip(tag)[i])

(* C27: for a SurrogateKeySet built from tags without internal whitespace, *)
(* from_header(to_header()) holds the same keys in the same order; the     *)
(* empty set gives the empty header and comes back empty.                  *)
C27_HeaderRoundTrip ==
    (Len(hist) = 2 /\ Last.op = "round_trip"
     /\ \A i \in 1..Len(hist[1].arg) : ~InternalWhitespace(hist[1].arg[i])) =>
        /\ keyset = before.keyset
        /\ before.keyset = <<>> => Last.arg = <<>>

\* C27's case: a set of two keys, built from tags with outer whitespace,
\* went through its header and came back.
C27_Witness ==
    /\ Len(hist) = 2 /\ Last.op = "round_trip"
    /\ hist[1].arg = <<<<" ", "a", "a">>, <<"a", "\t">>>>
    /\ Last.arg = <<"a", "a", " ", "a">>
    /\ keyset = <<<<"a", "a">>, <<"a">>>>

----------------------------------------------------------------------------
(* SpecSetSteps: concurrent callers run DjangoCacheBackend.set one store   *)
(* operation at a time, and a caller may die between two of them. Nothing  *)
(* is deleted and nothing expires.                                         *)

MaxSetOps == 5

NextSetSteps ==
    \/ \E key \in {KeyOne, KeyTwo},
          surrogate_keys \in {<<>>, <<TagT>>, <<TagT, TagU>>} :
          SetBegin(key, RespOk, 300, surrogate_keys, MaxSetOps)
    \/ \E i \in 1..Len(procs) : SetStep(i, MaxSetOps)
    \/ \E i \in 1..Len(procs) : SetCrash(i, MaxSetOps)

SpecSetSteps == InitBackend /\ [][NextSetSteps]_vars

\* The numbers of the set calls begun so far: the positions in hist of
\* their first store operation.
SetCalls ==
    {j \in 1..Len(hist) : hist[j].ret = j /\ hist[j].op \in {"store", "index_get"}}

\* The positions in hist of the operations op of call id, oldest first.
RECURSIVE StepsOf(_, _, _)
StepsOf(id, op, n) ==
    IF n = 0 THEN <<>>
    ELSE StepsOf(id, op, n - 1)
         \o (IF hist[n].ret = id /\ hist[n].op = op THEN <<n>> ELSE <<>>)

\* The surrogate keys call id was given: those its first operation left
\* to index.
GivenTo(id) == hist[id].ops

(* C28: DjangoCacheBackend.set writes the entry before any index add, and  *)
(* then adds the entry's key once per surrogate key, in order; so whenever *)
(* a set has stopped part-way, every key an index holds is in the store,   *)
(* and what can be missing is an index entry for a stored key.             *)
C28_StoreBeforeIndex ==
    /\ \A id \in SetCalls :
          LET adds == StepsOf(id, "add", Len(hist)) IN
          /\ hist[id].op = "store"
          /\ \A m \in 1..Len(adds) :
                /\ adds[m] > id
                /\ m <= Len(GivenTo(id))
                /\ hist[adds[m]].arg = GivenTo(id)[m]
                /\ hist[adds[m]].key = hist[id].key
          /\ (\A i \in 1..Len(procs) : procs[i].id # id)
             /\ (\A j \in 1..Len(hist) :
                    ~(hist[j].op = "crash" /\ hist[j].ret = id))
             => Len(adds) = Len(GivenTo(id))
    /\ \A tag \in {TagT, TagU} :
          \A k \in IndexGetKeys(cache, tag) : Has(cache, k)

\* C28's case: a set with two surrogate keys wrote its entry and indexed
\* the first key, and its process died before it indexed the second.
C28_Witness ==
    /\ Len(hist) > 0 /\ Last.op = "crash"
    /\ GivenTo(Last.ret) = <<TagT, TagU>>
    /\ Has(cache, Last.key)
    /\ Last.key \in IndexGetKeys(cache, TagT)
    /\ Last.key \notin IndexGetKeys(cache, TagU)

----------------------------------------------------------------------------
(* SpecIndexRace: concurrent set calls for two keys under one surrogate    *)
(* key, one store operation at a time, on the generic DjangoCacheIndex;    *)
(* when no call is in flight the surrogate key may be invalidated.         *)

MaxRaceOps == 7

NextIndexRace ==
    \/ \E key \in {KeyOne, KeyTwo} :
          SetBegin(key, RespOk, 300, <<TagT>>, MaxRaceOps)
    \/ \E i \in 1..Len(procs) : SetStep(i, MaxRaceOps)
    \/ procs = <<>> /\ BInvalidateBySurrogate(TagT, MaxRaceOps)

SpecIndexRace == InitBackend /\ [][NextIndexRace]_vars

\* The position in hist of the index read that add n wrote back.
ReadOf(n) ==
    CHOOSE j \in 1..n :
        /\ hist[j].op = "index_get" /\ hist[j].ret = hist[n].ret
        /\ hist[j].arg = hist[n].arg
        /\ \A m \in (j + 1)..(n - 1) :
              ~(hist[m].op = "index_get" /\ hist[m].ret = hist[n].ret)

\* The adds of other keys to the index of add n that wrote between the
\* read and the write of add n, and whose key add n had not read.
Overwritten(n) ==
    {i \in (ReadOf(n) + 1)..(n - 1) :
        /\ hist[i].op = "add" /\ hist[i].arg = hist[n].arg
        /\ hist[i].key # hist[n].key
        /\ ~InSeq(hist[i].key, hist[n].result)}

(* C29: the generic DjangoCacheIndex.add is a read-modify-write: the list  *)
(* it leaves in the store is the list it read with its key appended if     *)
(* absent, whatever was written in between, so a key added by another      *)
(* caller between its read and its write is no longer in the index; and    *)
(* invalidate_by_surrogate deletes exactly the keys the index holds, so an *)
(* entry whose key was lost from the index stays retrievable.              *)
C29_ReadModifyWrite ==
    Len(hist) > 0 =>
        /\ Last.op = "index_get" => Last.result = IndexRead(cache, Last.arg)
        /\ Last.op = "add" =>
              /\ IndexRead(cache, Last.arg)
                   = IF InSeq(Last.key, Last.result) THEN Last.result
                     ELSE Append(Last.result, Last.key)
              /\ \A i \in Overwritten(Len(hist)) :
                    hist[i].key \notin IndexGetKeys(cache, Last.arg)
        /\ Last.op = "invalidate_by_surrogate" =>
              /\ IndexGetKeys(cache, Last.arg) = {}
              /\ \A k \in {KeyOne, KeyTwo} :
                    DjangoGet(cache, k).found
                    <=> /\ DjangoGet(before.cache, k).found
                        /\ k \notin IndexGetKeys(before.cache, Last.arg)

\* C29's case: add(T, k1) and add(T, k2) both read the index before either
\* wrote it, get_keys(T) then lacked one of the two keys, and after
\* invalidate_by_surrogate(T) the entry of that key is still retrievable.
C29_Witness ==
    /\ Len(hist) > 0 /\ Last.op = "invalidate_by_surrogate"
    /\ \E i, j \in 1..Len(hist) :
          /\ i < j
          /\ hist[i].op = "add" /\ hist[j].op = "add"
          /\ hist[i].key # hist[j].key
          /\ ReadOf(i) < i /\ ReadOf(j) < i
          /\ Cardinality(IndexGetKeys(before.cache, TagT)) = 1
          /\ hist[i].key \notin IndexGetKeys(before.cache, TagT)
          /\ DjangoGet(cache, hist[i].key).found
          /\ ~DjangoGet(cache, hist[j].key).found

----------------------------------------------------------------------------
(* SpecFlight: requests to the decorated view are served concurrently;     *)
(* each call is two steps, the wrapper up to backend.get and the wrapper   *)
(* from the view call on.                                                  *)

MaxFlightOps == 5

FlightRequests ==
    {PlainRequest(PathA), PlainRequest(PathB),
     [path |-> PathA, do_not_cache |-> FALSE, bust |-> TRUE]}

FlightResponses == {RespOk, RespLatin, Resp404, RespTemplate}

NextFlight ==
    \/ \E request \in FlightRequests : Request(request, MaxFlightOps)
    \/ \E i \in 1..Len(procs), response \in FlightResponses :
          Respond(i, response, MaxFlightOps)
    \/ \E i \in 1..Len(pending) : Render(i, MaxFlightOps)

SpecFlight == Init /\ [][NextFlight]_vars

\* Record n is the end of a call whose wrapper stored the response.
Stored(n) ==
    /\ hist[n].op = "response" /\ hist[n].exc = ""
    /\ InSeq("set", hist[n].ops)

(* C30: the wrapper takes no lock and waits for no other request: what a   *)
(* request does after backend.get depends on the store alone, so a miss    *)
(* goes on to the view whatever is in flight; two requests with the same   *)
(* key that both did backend.get before either did backend.set both        *)
(* missed, both invoked the view and both stored; and after a set the      *)
(* entry under the key is the one that set wrote.                          *)
C30_NoSingleFlight ==
    /\ Len(hist) > 0 /\ Last.op = "request" /\ Last.arg \in {"hit", "miss"} =>
          /\ Last.arg = "hit"
               <=> DjangoGet(cache, Last.key).found /\ ~Last.request.bust
          /\ Last.arg = "miss" =>
                \E i \in 1..Len(procs) : procs[i].id = Len(hist)
    /\ \A a, b \in 1..Len(hist) :
          /\ a < b /\ Stored(a) /\ Stored(b)
          /\ hist[a].key = hist[b].key
          /\ hist[b].ret < a
          => /\ hist[hist[a].ret].arg = "miss"
             /\ hist[hist[b].ret].arg = "miss"
             /\ hist[a].invoked = 1 /\ hist[b].invoked = 1
             /\ hist[a].key \in hist[b].had
    /\ Len(hist) > 0 /\ Stored(Len(hist)) =>
          /\ Has(cache, Last.key)
          /\ cache[Last.key].v = Serialize(Last.result)

\* C30's case: two requests with the same key both did backend.get before
\* either stored, the views returned different responses, both stored,
\* and the store holds the response of the later set.
C30_Witness ==
    /\ Len(hist) = 4
    /\ hist[1].op = "request" /\ hist[2].op = "request"
    /\ hist[1].key = hist[2].key
    /\ ~hist[1].found /\ ~hist[2].found
    /\ Stored(3) /\ Stored(4)
    /\ hist[3].produced # hist[4].produced
    /\ cache[hist[4].key].v = Serialize(hist[4].result)
    /\ cache[hist[4].key].v # Serialize(hist[3].result)

----------------------------------------------------------------------------
(* The registry after a resolution that raised (SpecRegistry).             *)

(* C40: whenever get_backend_by_name(n) raises, for an unknown name or for *)
(* a composite entry that names one, the instances the registry keeps      *)
(* after the call are those it kept before the call.                       *)
C40_AsStated ==
    (/\ Len(hist) > 0 /\ Last.op = "get_backend_by_name"
     /\ Last.exc # "") =>
        backend_cache = before.backend_cache

----------------------------------------------------------------------------
(* SpecRegistryRace: threads resolve backends by name at the same time;    *)
(* each call is two steps, the test of line 53 and the rest. The registry  *)
(* is never cleared.                                                       *)

MaxResolveOps == 5

NextRegistryRace ==
    \/ \E name \in {"django", "combo", "missing"} :
          ResolveBegin(name, MaxResolveOps)
    \/ \E i \in 1..Len(procs) : ResolveEnd(i, MaxResolveOps)

SpecRegistryRace == InitBackend /\ [][NextRegistryRace]_vars

\* The calls so far that constructed an instance for name.
Constructions(name) ==
    {i \in 1..Len(hist) :
        hist[i].op = "get_backend_by_name" /\ InSeq(name, hist[i].ops)}

(* C32: in every interleaving of concurrent get_backend_by_name(n) calls   *)
(* at most one instance is constructed for n, and all callers of n receive *)
(* that instance.                                                          *)
C32_AsStated ==
    /\ \A name \in DOMAIN BackendsConfig :
          Cardinality(Constructions(name)) <= 1
    /\ \A i, j \in 1..Len(hist) :
          (Resolved(i) /\ Resolved(j) /\ hist[i].arg = hist[j].arg) =>
              hist[i].ret = hist[j].ret

----------------------------------------------------------------------------
(* SpecRawKey: cache keys are built for two requests whose prefix, tag     *)
(* names and request keys are short strings over a letter, ':' and ','.    *)

MaxPartLen == 1

PartStrings == UNION {[1..n -> {"a", ":", ","}] : n \in 0..MaxPartLen}

VersionedInputs ==
    {<<>>} \cup {<<[name |-> n, version |-> v]>> :
                    n \in PartStrings \ {<<>>}, v \in {1, 2}}

NextRawKey ==
    \E prefix \in PartStrings, tags \in VersionedInputs,
       request_key \in PartStrings :
        KeyCall(prefix, tags, request_key, 2)

SpecRawKey == InitBackend /\ [][NextRawKey]_vars

(* C38: the raw string of _build_cache_key is injective in (resolved       *)
(* prefix, versioned tag names with their versions in order, key_func      *)
(* output): two requests that differ in one of them get different raw      *)
(* strings, also when the components contain ':' or ','.                   *)
C38_AsStated ==
    Len(hist) = 2 /\ hist[1].arg # hist[2].arg =>
        hist[1].result # hist[2].result

----------------------------------------------------------------------------
(* What invalidate_by_surrogate deletes (SpecSurrogate).                   *)

\* The surrogate keys of the last successful set of key among the first n
\* records of hist; none when there was no such set.
RECURSIVE LatestTags(_, _)
LatestTags(key, n) ==
    IF n = 0 THEN <<>>
    ELSE IF hist[n].op = "set" /\ hist[n].key = key /\ hist[n].exc = ""
    THEN hist[n].arg
    ELSE LatestTags(key, n - 1)

(* C37: invalidate_by_surrogate(T) deletes only entries whose most recent  *)
(* set carried T: an entry stored with T and later stored again under the  *)
(* same key without T stays retrievable, as does an entry never stored     *)
(* with T.                                                                 *)
C37_AsStated ==
    LastIsInvalidateBySurrogate =>
        \A k \in {KeyOne, KeyTwo} :
            (Has(before.cache, k) /\ ~InSeq(Last.arg, LatestTags(k, Len(hist) - 1)))
                => DjangoGet(cache, k).found

----------------------------------------------------------------------------
(* SpecIndexed: requests to views whose tag lists mix static, dynamic and  *)
(* versioned tags, with names that need normalising, repeat, or normalise  *)
(* to nothing.                                                             *)

MaxIndexedOps == 3

TagViews ==
    { [tags |-> <<StrTag(<<" ", "t">>),
                  VersionedTag(TagG, "", VersionedDefaultTimeout),
                  StrTag(TagT), CallableTag("list"), StrTag(<<" ">>)>>,
       prefix |-> NoneStr, timeout |-> 300, only_if |-> "none"],
      [tags |-> <<VersionedTag(<<>>, "path", 600), CallableTag("none")>>,
       prefix |-> NoneStr, timeout |-> 300, only_if |-> "none"],
      [tags |-> <<CallableTag("list"), StrTag(<<"t", " ">>)>>,
       prefix |-> NoneStr, timeout |-> 60, only_if |-> "none"] }

InitIndexed ==
    /\ view \in TagViews
    /\ cache = EmptyCache /\ cache2 = EmptyCache /\ rsets = EmptyCache
    /\ backend_cache = EmptyCache /\ instances = <<>>
    /\ before = [cache |-> EmptyCache, pending |-> <<>>, stub |-> <<>>,
                 cache2 |-> EmptyCache, backend_cache |-> EmptyCache,
                 instances |-> <<>>, keyset |-> <<>>]
    /\ incrs = <<>> /\ procs = <<>> /\ keyset = <<>> /\ pending = <<>>
    /\ handed = [list |-> <<>>, shared |-> FALSE]
    /\ stub = <<>> /\ hist = <<>>

NextIndexed ==
    \/ \E request \in {PlainA, PlainB}, response \in {RespOk, Resp404} :
          Call(request, response, MaxIndexedOps)
    \/ \E surrogate_key \in {TagT, TagG} :
          BInvalidateBySurrogate(surrogate_key, MaxIndexedOps)

SpecIndexed == InitIndexed /\ [][NextIndexed]_vars

\* The names the tags of a decoration resolve to for a request, in
\* configuration order; without the versioned tags when versioned is FALSE.
RECURSIVE NamesOf(_, _, _)
NamesOf(tags, request, versioned) ==
    IF tags = <<>> THEN <<>>
    ELSE (IF tags[1].kind = "versioned"
          THEN (IF versioned THEN <<ResolveName(tags[1], request)>> ELSE <<>>)
          ELSE IF tags[1].kind = "str" THEN <<tags[1].name>>
          ELSE CallFn(tags[1].fn, request))
         \o NamesOf(Tail(tags), request, versioned)

\* The names of a list normalised, those that normalise to nothing left
\* out, and each kept where it comes first.
RECURSIVE NormalDistinct(_, _)
NormalDistinct(names, kept) ==
    IF names = <<>> THEN kept
    ELSE LET n == NormalizeOpt(names[1]) IN
         NormalDistinct(Tail(names),
                        IF n.none \/ InSeq(n.key, kept) THEN kept
                        ELSE Append(kept, n.key))

TagUniverse == {TagT, TagG, TagU, <<"p">> \o PathA, <<"p">> \o PathB}

\* The last operation was a request that stored its response, and the
\* stored key was index-added under exactly the tags of the list expected,
\* in the order of the list.
IndexedUnder(expected) ==
    /\ \A t \in TagUniverse :
          Last.key \in IndexGetKeys(cache, t)
          <=> \/ InSeq(t, expected)
              \/ Last.key \in IndexGetKeys(before.cache, t)
    /\ LET entry == [key |-> Last.key, response |-> Last.result,
                     timeout |-> view.timeout,
                     surrogate_keys |->
                         ResolveTags(Last.request, view.tags, <<>>, <<>>).keys]
       IN SelectSeq(SetSteps(entry), LAMBDA st : st.op = "add")
          = [i \in 1..Len(expected) |-> [op |-> "add", tag |-> expected[i]]]

LastCallStored ==
    /\ Len(hist) > 0 /\ IsCall(Last)
    /\ Last.exc = "" /\ InSeq("set", Last.ops)

(* C35 as stated: when the engine stores an entry after a miss, the tags   *)
(* under which the stored key is index-added are exactly the request's     *)
(* resolved non-versioned tags, static and dynamic, normalised and         *)
(* de-duplicated in configuration order.                                   *)
C35_AsStated ==
    LastCallStored =>
        IndexedUnder(NormalDistinct(NamesOf(view.tags, Last.request, FALSE),
                                    <<>>))

(* C35, amended: the tags under which the stored key is index-added are    *)
(* the resolved names of all tags of the request, those of its versioned   *)
(* tags included, normalised and de-duplicated in configuration order.     *)
C35_IndexedTags ==
    LastCallStored =>
        IndexedUnder(NormalDistinct(NamesOf(view.tags, Last.request, TRUE),
                                    <<>>))

\* C35's case: a request to the view with static, dynamic and versioned
\* tags missed and stored, and its key is in the index of the versioned
\* tag g as well as in those of t and u.
C35_Witness ==
    /\ LastCallStored /\ ~Last.found
    /\ NamesOf(view.tags, Last.request, TRUE)
         = <<<<" ", "t">>, TagG, TagT, TagU, TagT, <<" ">>>>
    /\ \A t \in {TagT, TagG, TagU} : Last.key \in IndexGetKeys(cache, t)
    /\ Last.key \notin IndexGetKeys(before.cache, TagG)

----------------------------------------------------------------------------
(* SpecSetInvalidate: set calls for entries tagged t and calls of          *)
(* invalidate_by_surrogate(t) run concurrently on the default backend, one *)
(* store operation at a time. A set begins only when no other set is in    *)
(* flight, so no index add is lost to another add. Nothing expires.        *)

MaxMixOps == 9

NextSetInvalidate ==
    \/ /\ \A i \in 1..Len(procs) : procs[i].kind # "set"
       /\ \E key \in {KeyOne, KeyTwo} :
             SetBegin(key, RespOk, 300, <<TagT>>, MaxMixOps)
    \/ \E i \in 1..Len(procs) : SetStep(i, MaxMixOps)
    \/ InvalidateBegin(TagT, MaxMixOps)
    \/ \E i \in 1..Len(procs) : InvalidateStep(i, MaxMixOps)

SpecSetInvalidate == InitBackend /\ [][NextSetInvalidate]_vars

(* C36: for any interleaving of set calls of entries tagged T with         *)
(* invalidate_by_surrogate(T), once all calls have completed every entry   *)
(* in the store has its key in the index of T: no live entry tagged T is   *)
(* left unindexed.                                                         *)
C36_AsStated ==
    procs = <<>> =>
        \A k \in {KeyOne, KeyTwo} :
            Has(cache, k) => k \in IndexGetKeys(cache, TagT)

----------------------------------------------------------------------------
(* SpecIndexTtl: keys are added to the generic index and to the native-set *)
(* index while time passes. Here the ttl of a stored value is the time it  *)
(* has left: it is the timeout when the value is written and goes down as  *)
(* time passes. Nothing is removed and nothing expires.                    *)

MaxIndexOps == 5

\* DjangoCacheIndex.add(surrogate_key, cache_key) without a redis client.
IndexAddCall(surrogate_key, cache_key, bound) ==
    /\ Len(hist) < bound
    /\ cache' = IndexAdd(cache, surrogate_key, cache_key)
    /\ Log(Rec("add", NoRequest, cache_key, surrogate_key, "default",
               NoResponse, 0, Outcome(0, FALSE, "", NoResponse, <<>>)))
    /\ UNCHANGED <<rsets, procs, cache2, stub, view, pending, incrs, backend_cache, instances, keyset, handed>>

\* The time left of every value of a store after seconds have passed.
Aged(c, seconds) == [k \in DOMAIN c |-> [c[k] EXCEPT !.ttl = @ - seconds]]

\* Time passes, less than any stored value has left.
Age(seconds, bound) ==
    /\ Len(hist) < bound
    /\ DOMAIN cache \cup DOMAIN rsets # {}
    /\ \A k \in DOMAIN cache : cache[k].ttl > seconds
    /\ \A k \in DOMAIN rsets : rsets[k].ttl > seconds
    /\ cache' = Aged(cache, seconds)
    /\ rsets' = Aged(rsets, seconds)
    /\ Log(Rec("age", NoRequest, <<>>, <<>>, "default", NoResponse, seconds,
               Outcome(0, FALSE, "", NoResponse, <<>>)))
    /\ UNCHANGED <<procs, cache2, stub, view, pending, incrs, backend_cache, instances, keyset, handed>>

NextIndexTtl ==
    \/ \E surrogate_key \in {TagT, TagU}, cache_key \in {KeyOne, KeyTwo} :
          IndexAddCall(surrogate_key, cache_key, MaxIndexOps)
    \/ /\ procs = <<>>
       /\ \E cache_key \in {KeyOne, KeyTwo} :
             RAddPipeline(TagT, cache_key, MaxIndexOps)
    \/ \E i \in 1..Len(procs) : RAddExecute(i, MaxIndexOps)
    \/ Age(3600, MaxIndexOps)

SpecIndexTtl == InitBackend /\ [][NextIndexTtl]_vars

\* The keys of the adds under tag on a backend among the first n records.
AddedUnder(tag, backend, n) ==
    {hist[i].key : i \in {j \in 1..n : /\ hist[j].op = "add"
                                        /\ hist[j].arg = tag
                                        /\ hist[j].backend = backend}}

(* C33: add(tag, k) with k already indexed under tag leaves get_keys(tag)  *)
(* as it was; every add, of a new key or not, sets the time the index      *)
(* entry of tag has left to the index timeout; and after sequential adds   *)
(* without remove or expiry get_keys(tag) is the set of the keys added.    *)
C33_AddIdempotentRefresh ==
    /\ \A tag \in {TagT, TagU} :
          /\ IndexGetKeys(cache, tag) = AddedUnder(tag, "default", Len(hist))
          /\ RedisGetKeys(rsets, tag) = AddedUnder(tag, "redis", Len(hist))
    /\ (Len(hist) > 0 /\ Last.op = "add" /\ Last.backend = "default") =>
          /\ cache[IndexKey(Last.arg)].ttl = SurrogateIndexTimeout
          /\ Last.key \in IndexGetKeys(before.cache, Last.arg) =>
                IndexGetKeys(cache, Last.arg)
                    = IndexGetKeys(before.cache, Last.arg)
          /\ \A k \in DOMAIN cache \ {IndexKey(Last.arg)} :
                SameAt(cache, before.cache, k)
    /\ (Len(hist) > 0 /\ Last.op = "add" /\ Last.backend = "redis") =>
          /\ rsets[RedisIndexKey(Last.arg)].ttl = SurrogateIndexTimeout
          /\ Last.key \in AddedUnder(Last.arg, "redis", Len(hist) - 1) =>
                RedisGetKeys(rsets, Last.arg)
                    = AddedUnder(Last.arg, "redis", Len(hist) - 1)

\* C33's case: a key was added under a tag, time passed, and the same key
\* was added again: the keys of the tag are the same and the index entry
\* has the whole index timeout left again.
C33_Witness ==
    /\ Len(hist) > 2 /\ Last.op = "add" /\ Last.backend = "default"
    /\ Last.key \in IndexGetKeys(before.cache, Last.arg)
    /\ before.cache[IndexKey(Last.arg)].ttl < SurrogateIndexTimeout
    /\ cache[IndexKey(Last.arg)].ttl = SurrogateIndexTimeout
    /\ IndexGetKeys(cache, Last.arg) = IndexGetKeys(before.cache, Last.arg)

\* The same for the native-set index.
C33_WitnessRedis ==
    /\ Len(hist) > 3 /\ Last.op = "add" /\ Last.backend = "redis"
    /\ Last.key \in AddedUnder(Last.arg, "redis", Len(hist) - 1)
    /\ \E i \in 1..(Len(hist) - 1) : hist[i].op = "age"
    /\ rsets[RedisIndexKey(Last.arg)].ttl = SurrogateIndexTimeout

----------------------------------------------------------------------------
(* What a hit leaves as it was (Spec).                                     *)

\* The last operation was a request that was not bypassed, found an entry
\* under its key and carried no _bust_cache flag.
LastCallHit ==
    /\ Len(hist) > 0 /\ IsCall(Last)
    /\ Last.key # <<>> /\ Last.exc = ""
    /\ Last.found /\ ~Last.request.bust

(* C39: a request that ends in a hit does not invoke the view, performs no *)
(* set and registers no callback, and leaves every stored entry, value and *)
(* expiry, and every index entry as it was before the request.             *)
C39_HitFrame ==
    LastCallHit =>
        /\ Last.invoked = 0
        /\ ~InSeq("set", Last.ops)
        /\ pending = before.pending
        /\ \A k \in DOMAIN cache \cup DOMAIN before.cache :
              IsEntryKey(k) \/ IsIndexKey(k) => SameAt(cache, before.cache, k)

\* C39's case: a request to a view with a tag was answered from the store,
\* which holds the entry and the index entry of the tag.
C39_Witness ==
    /\ LastCallHit
    /\ Has(cache, Last.key) /\ Has(cache, IndexKey(TagT))
    /\ Last.key \in IndexGetKeys(cache, TagT)
    /\ Last.result = DjangoGet(before.cache, Last.key).response

----------------------------------------------------------------------------
(* SpecIsolation: requests to views with tags, increments of the versions  *)
(* of the groups the views use and of other groups, and keys built for one *)
(* prefix and one request key with versioned tags of several names.        *)
(* Nothing expires.                                                        *)

MaxIsolationOps == 3

GroupP(path) == <<"p">> \o path

Groups == {TagG, GroupP(PathA), GroupP(PathB)}

NextIsolation ==
    \/ \E request \in {PlainA, PlainB} :
          Call(request, RespOk, MaxIsolationOps)
    \/ \E group \in Groups, keepTtl \in BOOLEAN :
          BIncrement(group, keepTtl, MaxIsolationOps)
    \/ \E name \in Groups \cup {TagG \o <<":", "1">>}, version \in {1, 11} :
          KeyCall(NoneStr, <<[name |-> name, version |-> version]>>, PathA,
                  MaxIsolationOps)

SpecIsolation == InitTags /\ [][NextIsolation]_vars

\* Records i, i+1, i+2 of hist: a request, an increment of a group that is
\* none of the names the request's versioned tags resolve to, and the same
\* request again.
OtherBumpBetween(i) ==
    /\ IsCall(hist[i]) /\ hist[i].key # <<>>
    /\ hist[i + 1].op = "increment_group_version"
    /\ hist[i + 1].arg \notin VersionedNames(view, hist[i].request)
    /\ IsCall(hist[i + 2]) /\ hist[i + 2].request = hist[i].request

----------------------------------------------------------------------------
(* SpecStale: requests to a view with tags are served concurrently, in two *)
(* steps each, while the versions of the groups of its versioned tags are  *)
(* incremented; deferred responses are rendered later. Nothing expires.    *)

MaxStaleOps == 5

NextStale ==
    \/ \E request \in {PlainA, PlainB} : Request(request, MaxStaleOps)
    \/ \E i \in 1..Len(procs), response \in {RespOk, RespTemplate} :
          Respond(i, response, MaxStaleOps)
    \/ \E i \in 1..Len(pending) : Render(i, MaxStaleOps)
    \/ \E group \in {TagG, GroupP(PathA)}, keepTtl \in BOOLEAN :
          BIncrement(group, keepTtl, MaxStaleOps)

SpecStale == InitTags /\ [][NextStale]_vars

\* Record n is a request that resolved a cache key.
ResolvedKey(n) == hist[n].op = "request" /\ hist[n].key # <<>>

\* A version one of the versioned tags of request a resolves to was
\* incremented after record a and before record r.
BumpedBetween(a, r) ==
    \E b \in (a + 1)..(r - 1) :
        /\ hist[b].op = "increment_group_version"
        /\ hist[b].arg \in VersionedNames(view, hist[a].request)

C31_WitnessDeferred ==
    /\ Len(hist) = 5
    /\ ResolvedKey(1) /\ hist[2].op = "response" /\ hist[2].ret = 1
    /\ InSeq("add_post_render_callback", hist[2].ops)
    /\ BumpedBetween(1, 4)
    /\ hist[4].op = "render" /\ hist[4].key = hist[1].key
    /\ ResolvedKey(5) /\ hist[5].request = hist[1].request
    /\ hist[5].key # hist[1].key /\ ~hist[5].found

====
